---- MODULE Spec2Model ----
(***************************************************************************)
(* Model of dev-analyzer: transformLogs, the Next.js log parser             *)
(* (src/src/logTransformer/parsers/next.ts) and its summary fold; the      *)
(* evaluator (evaluate, deriveLevel, buildRecommendations,                 *)
(* generateLlmInsights, readProjectFile); the CLI's runAnalyze; the log    *)
(* collector runDevWithLogs.                                               *)
(* Spec and WaitSpec are one transformLogs call; RoundTripSpec and         *)
(* StreamSpec replay its lines; EvaluateSpec is one evaluate call, made by *)
(* a library user or by runAnalyze; AnalyzeSpec is one analyze run from    *)
(* its first transform to its reports; CollectorSpec is one               *)
(* runDevWithLogs call; FileSpec is one readProjectFile call.              *)
(*                                                                         *)
(* Conventions.                                                            *)
(*  - A JavaScript string is a sequence of one-character strings, so that  *)
(*    startsWith, includes, trim and the regular expressions are computed  *)
(*    on the text itself.                                                  *)
(*  - A JavaScript value that may be null is a tagged record: Null,        *)
(*    Num(v), NaN, Str(s).                                                 *)
(*  - A JavaScript number that may carry a fraction (parseFloat results,   *)
(*    durationMs, longestBuildMs) is a fixed-point integer counting        *)
(*    thousandths: Ms(850) is 850 ms.  Numerals with more than three       *)
(*    fractional digits are outside the modelled inputs.  Counts (array    *)
(*    lengths, module counts) are plain naturals.                          *)
(*  - A LogEntry is identified by its position in logs (every entry the    *)
(*    collector pushes is a fresh object) and carries its message.         *)
(***************************************************************************)
EXTENDS Integers, Sequences, FiniteSets, TLC

VARIABLES
    framework,        \* TransformLogsOptions.framework
    logs,             \* TransformLogsOptions.logs: the messages of the entries
    pc,               \* "start" | "parse" | "done" ("idle": no transformLogs call)
    idx,              \* position of the for..of loop of parse in logs
    lastWaitContext,  \* the pending wait target of parse (Null when none is open)
    buildEvents,      \* accumulators of parse
    warnings,
    errors,
    notes,
    result,           \* the LogTransformResult returned, NoResult before
    previous,         \* the result of an earlier call whose rawLogs are parsed again
    stream,           \* the classification of the lines one received line at a time
    caller,           \* who calls evaluate: "evaluate" (a library user) | "runAnalyze"
    env,              \* process.env.OPENAI_API_KEY
    cliOptions,       \* CLIOptions of runAnalyze (Null for a library user)
    evaluationContext, \* the EvaluationContext: metrics and configFiles
    options,          \* the EvaluateOptions: thresholds and llm (Null until built)
    epc,              \* position in runAnalyze and evaluate
    thresholds,       \* locals of evaluate
    score,
    level,
    recommendations,
    issues,
    llmCall,          \* how generateLlmInsights ended: "none" before it has
    llmSummary,
    evaluation,       \* the EvaluationResult returned, NoResult before
    devRun,           \* the dev stage of runAnalyze: "pending" | "skipped" | "succeeded" | "failed"
    child,            \* the spawned dev process: "running" | "exited" | "error"
    pending,          \* per stream, the lines the child has written and the reader has not delivered
    written,          \* per stream, how many lines the child has written
    readers,          \* per stream, the readline interface: "open" | "closed" | "error"
    collected,        \* the logs array of runDevWithLogs, in push order
    onLog,            \* options.onLog: whether it is given, and the entries it was called with
    cpc,              \* position in runDevWithLogs
    root,             \* arguments of readProjectFile
    relativePath,
    disk,             \* what fs.stat finds at the resolved path
    fpc,              \* position in readProjectFile
    reads,            \* the paths given to fs.readFile
    snapshot          \* the ProjectFileSnapshot returned, NoResult before

parseVars == <<framework, logs, pc, idx, lastWaitContext, buildEvents, warnings, errors,
               notes, result>>
replayVars == <<previous, stream>>
evaluateVars == <<caller, env, cliOptions, evaluationContext, options, epc, thresholds,
                  score, level, recommendations, issues, llmCall, llmSummary, evaluation>>
analyzeVars == <<devRun>>
collectorVars == <<child, pending, written, readers, collected, onLog, cpc>>
fileVars == <<root, relativePath, disk, fpc, reads, snapshot>>
otherVars == <<analyzeVars, collectorVars, fileVars>>
vars == <<parseVars, replayVars, evaluateVars, otherVars>>

----------------------------------------------------------------------------
(* JavaScript values *)

Null == [t |-> "null"]
NaN == [t |-> "NaN"]
Num(v) == [t |-> "number", v |-> v]
Str(s) == [t |-> "string", v |-> s]

\* One unit of a fractional number, in thousandths.
Ms(n) == n * 1000

\* x * n for a JavaScript number x and a literal n.
Times(x, n) == IF x = NaN THEN NaN ELSE Num(x.v * n)

\* !x for a number or null: null, 0 and NaN are falsy.
Falsy(x) == x = Null \/ x = NaN \/ (x.t = "number" /\ x.v = 0)

----------------------------------------------------------------------------
(* Characters and strings *)

Digits == <<"0","1","2","3","4","5","6","7","8","9">>
Upper == <<"A","B","C","D","E","F","G","H","I","J","K","L","M","N","O","P","Q","R","S","T","U","V","W","X","Y","Z">>
Lower == <<"a","b","c","d","e","f","g","h","i","j","k","l","m","n","o","p","q","r","s","t","u","v","w","x","y","z">>

\* The character classes \d, [\d.] and \s.
DigitChars == {Digits[k] : k \in 1..10}
DigitOrDotChars == DigitChars \cup {"."}
SpaceChars == {" ", "\t"}

IsDigit(c) == c \in DigitChars
DigitVal(c) == (CHOOSE k \in 1..10 : Digits[k] = c) - 1
IsDigitOrDot(c) == c \in DigitOrDotChars
IsSpace(c) == c \in SpaceChars

toLowerChar(c) == IF \E k \in 1..26 : Upper[k] = c
                  THEN Lower[CHOOSE k \in 1..26 : Upper[k] = c]
                  ELSE c
toLowerCase(s) == [k \in 1..Len(s) |-> toLowerChar(s[k])]

\* The text p occurs in s at position i.
MatchAt(s, p, i) == /\ i >= 1
                    /\ i + Len(p) - 1 <= Len(s)
                    /\ SubSeq(s, i, i + Len(p) - 1) = p
\* The same under the regular-expression flag i (p is in lower case).
MatchAtCI(s, p, i) == MatchAt(toLowerCase(s), p, i)

startsWith(s, p) == MatchAt(s, p, 1)
includes(s, p) == \E i \in 1..(Len(s) + 1) : MatchAt(s, p, i)
slice(s, n) == SubSeq(s, n + 1, Len(s))

Min(S) == CHOOSE a \in S : \A b \in S : a <= b
Max(S) == CHOOSE a \in S : \A b \in S : a >= b

trim(s) ==
    LET keep == {k \in 1..Len(s) : ~IsSpace(s[k])}
    IN IF keep = {} THEN << >> ELSE SubSeq(s, Min(keep), Max(keep))

\* The last position of the longest run of characters of class X that
\* starts at i (i - 1 when s[i] is not in X): a greedy X* or X+.
RunEnd(s, i, X) ==
    CHOOSE j \in (i - 1)..Len(s) :
        /\ \A k \in i..j : s[k] \in X
        /\ (j = Len(s) \/ s[j + 1] \notin X)

\* Value of a run of decimal digits.
RECURSIVE DecVal(_)
DecVal(ds) == IF ds = << >> THEN 0
              ELSE DecVal(SubSeq(ds, 1, Len(ds) - 1)) * 10 + DigitVal(ds[Len(ds)])

\* parseFloat on a text of digits and dots: the longest prefix
\* digits [ "." digits ] holding at least one digit, NaN when there is none.
\* The value is in thousandths.
parseFloat(text) ==
    LET intEnd == RunEnd(text, 1, DigitChars)
        hasDot == intEnd < Len(text) /\ text[intEnd + 1] = "."
        fracEnd == IF hasDot THEN RunEnd(text, intEnd + 2, DigitChars) ELSE intEnd
        frac == IF hasDot THEN SubSeq(text, intEnd + 2, fracEnd) ELSE << >>
    IN IF intEnd = 0 /\ frac = << >> THEN NaN
       ELSE Num(DecVal(SubSeq(text, 1, intEnd)) * 1000
                + DecVal(SubSeq(frac \o <<"0","0","0">>, 1, 3)))

----------------------------------------------------------------------------
(* Literals of parsers/next.ts *)

WAIT_PREFIX == <<"-"," ","w","a","i","t">>
EVENT_PREFIX == <<"-"," ","e","v","e","n","t">>
EVENT_COMPILED == EVENT_PREFIX \o <<" ","c","o","m","p","i","l","e","d">>
DUPLICATE_PAGE == <<"D","u","p","l","i","c","a","t","e"," ","p","a","g","e"," ","d","e","t","e","c","t","e","d">>
NAMED_LAYOUT == <<"T","h","e"," ","p","a","g","e"," ","c","o","m","p","o","n","e","n","t"," ","i","s"," ","n","a","m","e","d"," ","\"","l","a","y","o","u","t","\"">>
PATCHED == <<"w","a","s"," ","s","u","c","c","e","s","s","f","u","l","l","y"," ","p","a","t","c","h","e","d">>
WARN_DASH == <<"-"," ","w","a","r","n">>
WARN_LEGACY == <<"w","a","r","n"," ","-">>
DEPRECATION == <<"D","e","p","r","e","c","a","t","i","o","n","W","a","r","n","i","n","g">>
CLIENT_AND_SERVER == <<"c","l","i","e","n","t"," ","a","n","d"," ","s","e","r","v","e","r">>
COMPILING == <<"c","o","m","p","i","l","i","n","g">>
COMPILED == <<"c","o","m","p","i","l","e","d">>
SUCCESSFULLY == <<"s","u","c","c","e","s","s","f","u","l","l","y">>
ELLIPSIS == <<".",".",".">>
INDENT == <<" "," "," "," "," "," "," "," ">>
BUILD == <<"b","u","i","l","d">>
UNIT_S == <<"s">>
UNIT_MS == <<"m","s">>
UNIT_MODULES == <<"m","o","d","u","l","e","s">>
NEXT_KEYWORD == <<"n","e","x","t">>

----------------------------------------------------------------------------
(* Regular expressions of parsers/next.ts *)

\* /(X+)\s*unit/ tried at position i: X+ takes the whole run from i, \s* the
\* whole run of spaces after it, and unit must follow.  Giving characters
\* back never helps (the character after a shortened run is an X or a space,
\* never the first letter of unit), so this is the only way to match at i.
RunUnitMatchAt(s, i, X, unit) ==
    /\ s[i] \in X
    /\ MatchAt(s, unit, RunEnd(s, RunEnd(s, i, X) + 1, SpaceChars) + 1)

\* s.match(/(X+)\s*unit/): group 1 of the leftmost match, Null without one.
RunUnitMatch(s, X, unit) ==
    LET starts == {i \in 1..Len(s) : RunUnitMatchAt(s, i, X, unit)}
    IN IF starts = {} THEN Null
       ELSE Str(SubSeq(s, Min(starts), RunEnd(s, Min(starts), X)))

SECONDS_REGEX(line) == RunUnitMatch(line, DigitOrDotChars, UNIT_S)
MILLIS_REGEX(line) == RunUnitMatch(line, DigitOrDotChars, UNIT_MS)
MODULES_REGEX(line) == RunUnitMatch(line, DigitChars, UNIT_MODULES)

\* s.match(/compiling\s+(.+)/i): group 1 of the leftmost match, Null without
\* one.  \s+ takes the whole run of spaces and (.+) the rest of the text; when
\* the spaces end the text, \s+ gives its last space back to (.+).
CompilingMatch(s) ==
    LET ok(p) == /\ MatchAtCI(s, COMPILING, p)
                 /\ p + Len(COMPILING) <= Len(s)
                 /\ IsSpace(s[p + Len(COMPILING)])
                 /\ (RunEnd(s, p + Len(COMPILING), SpaceChars) < Len(s)
                     \/ RunEnd(s, p + Len(COMPILING), SpaceChars) > p + Len(COMPILING))
        starts == {p \in 1..Len(s) : ok(p)}
        w == RunEnd(s, Min(starts) + Len(COMPILING), SpaceChars)
    IN IF starts = {} THEN Null
       ELSE Str(SubSeq(s, IF w < Len(s) THEN w + 1 ELSE w, Len(s)))

\* s.replace(/\(.*\)/, ''): the leftmost "(" that has a ")" after it, up to
\* the last ")" of the text, is removed.
StripParens(s) ==
    LET closes == {r \in 1..Len(s) : s[r] = ")"}
        opens == {q \in 1..Len(s) : s[q] = "(" /\ \E r \in closes : r > q}
    IN IF opens = {} THEN s
       ELSE SubSeq(s, 1, Min(opens) - 1) \o SubSeq(s, Max(closes) + 1, Len(s))

\* s.replace(/\.\.\.$/, '')
StripEllipsis(s) ==
    IF MatchAt(s, ELLIPSIS, Len(s) - Len(ELLIPSIS) + 1)
    THEN SubSeq(s, 1, Len(s) - Len(ELLIPSIS))
    ELSE s

\* s.replace(/client and server/i, ''): the first occurrence is removed.
StripClientAndServer(s) ==
    LET at == {p \in 1..Len(s) : MatchAtCI(s, CLIENT_AND_SERVER, p)}
    IN IF at = {} THEN s
       ELSE SubSeq(s, 1, Min(at) - 1)
            \o SubSeq(s, Min(at) + Len(CLIENT_AND_SERVER), Len(s))

\* \s+successfully matches right after position e.
SuccessfullyAfter(s, e) ==
    /\ e + 1 <= Len(s)
    /\ IsSpace(s[e + 1])
    /\ MatchAtCI(s, SUCCESSFULLY, RunEnd(s, e + 1, SpaceChars) + 1)

\* s.match(/compiled\s+(.*)\s+successfully/i): group 1 of the leftmost
\* match, Null without one.  At a start p the first \s+ is tried from its
\* longest run down to one space, and for each the group (.*) from its
\* longest extent down to the empty text.
CompiledMatch(s) ==
    LET first(p) == p + Len(COMPILED)
        splits(p) ==
            IF MatchAtCI(s, COMPILED, p) /\ first(p) <= Len(s) /\ IsSpace(s[first(p)])
            THEN {k \in first(p)..RunEnd(s, first(p), SpaceChars) :
                     \E e \in k..Len(s) : SuccessfullyAfter(s, e)}
            ELSE {}
        starts == {p \in 1..Len(s) : splits(p) # {}}
        k == Max(splits(Min(starts)))
        e == Max({x \in k..Len(s) : SuccessfullyAfter(s, x)})
    IN IF starts = {} THEN Null ELSE Str(SubSeq(s, k + 1, e))

----------------------------------------------------------------------------
(* Helpers of parsers/next.ts *)

\* canHandle without toLowerCase.
canHandle_caseSensitive(fw) == includes(fw, NEXT_KEYWORD)

canHandle(fw) == includes(toLowerCase(fw), NEXT_KEYWORD)

isWaitLine(line) == startsWith(line, WAIT_PREFIX)

\* OrBuild without the fallback.
OrBuild_keepsEmpty(s) == s

OrBuild(s) == IF s = << >> THEN BUILD ELSE s

normalizeWaitTarget(line) ==
    LET withoutPrefix == trim(slice(line, Len(WAIT_PREFIX)))
        withoutEllipsis == trim(StripEllipsis(withoutPrefix))
        compilingMatch == CompilingMatch(withoutEllipsis)
    IN IF compilingMatch # Null
       THEN OrBuild(trim(StripParens(compilingMatch.v)))
       ELSE OrBuild(withoutEllipsis)

isEventCompiledLine(line) == startsWith(line, EVENT_COMPILED)

parseDuration(line) ==
    LET secondsMatch == SECONDS_REGEX(line)
        millisMatch == MILLIS_REGEX(line)
    IN IF secondsMatch # Null THEN Times(parseFloat(secondsMatch.v), 1000)
       ELSE IF millisMatch # Null THEN parseFloat(millisMatch.v)
       ELSE Null

parseModules(line) ==
    LET modulesMatch == MODULES_REGEX(line)
    IN IF modulesMatch # Null THEN Num(DecVal(modulesMatch.v)) ELSE Null

inferTarget(line) ==
    LET targetMatch == CompiledMatch(line)
    IN IF targetMatch # Null
       THEN OrBuild(trim(StripClientAndServer(targetMatch.v)))
       ELSE BUILD

\* inferBuildType without the test of the context.
inferBuildType_ignoresContext(line, context) ==
    IF includes(line, CLIENT_AND_SERVER) THEN "initial" ELSE "incremental"

\* context is Null or Str(s); a wait target is never the empty string, but
\* the truthiness test of the code is kept.
inferBuildType(line, context) ==
    IF context # Null /\ context.v # << >> THEN "incremental"
    ELSE IF includes(line, CLIENT_AND_SERVER) THEN "initial" ELSE "incremental"

parseBuildEvent(line, context) ==
    [target |-> IF context # Null THEN context.v ELSE inferTarget(line),
     durationMs |-> parseDuration(line),
     modules |-> parseModules(line),
     type |-> inferBuildType(line, context)]

\* collectIndentedBlock without the break: every later indented entry is taken.
collectIndentedBlock_noBreak(lg, start) ==
    LET taken == {j \in (start + 1)..Len(lg) : startsWith(lg[j], INDENT)}
        nth(k) == CHOOSE j \in taken : Cardinality({i \in taken : i <= j}) = k
    IN [k \in 1..Cardinality(taken) |-> trim(lg[nth(k)])]

\* The trimmed messages of the entries after position start, up to the first
\* one whose raw message does not begin with eight spaces.
collectIndentedBlock(lg, start) ==
    LET stop == {j \in (start + 1)..Len(lg) : ~startsWith(lg[j], INDENT)}
        last == IF stop = {} THEN Len(lg) ELSE Min(stop) - 1
    IN [j \in 1..(last - start) |-> trim(lg[start + j])]

\* buildEvents.reduce(f) without an initial value: the first event is the
\* first accumulator.
reduceStep(acc, cur) ==
    IF Falsy(acc.durationMs) THEN cur
    ELSE IF Falsy(cur.durationMs) THEN acc
    ELSE IF cur.durationMs.v > acc.durationMs.v THEN cur ELSE acc

RECURSIVE reduceFrom(_, _, _)
reduceFrom(evs, acc, k) ==
    IF k > Len(evs) THEN acc ELSE reduceFrom(evs, reduceStep(acc, evs[k]), k + 1)

EmptySummary == [k \in {} |-> Null]

\* summarize without the early return for no events.
summarize_noEmptyCase(evs) ==
    LET longest == IF Len(evs) = 0 THEN [durationMs |-> Null, target |-> BUILD]
                   ELSE reduceFrom(evs, evs[1], 2)
    IN [eventCount |-> Len(evs),
        longestBuildMs |-> longest.durationMs,
        longestTarget |-> Str(longest.target)]

summarize(evs) ==
    IF Len(evs) = 0 THEN EmptySummary
    ELSE LET longest == reduceFrom(evs, evs[1], 2)
         IN [eventCount |-> Len(evs),
             longestBuildMs |-> longest.durationMs,
             longestTarget |-> Str(longest.target)]

----------------------------------------------------------------------------
(* Inputs *)

\* Framework names as detectManager reports them (FRAMEWORK_CANDIDATES,
\* UNKNOWN_FRAMEWORK).
Frameworks == {<<"N","e","x","t",".","j","s">>, <<"N","u","x","t">>, <<"U","n","k","n","o","w","n">>}

\* Raw messages of log entries, before trimming.
MsgWait == <<"-"," ","w","a","i","t"," ","c","o","m","p","i","l","i","n","g"," ","/","h","o","m","e",".",".",".">>
MsgSeconds == <<"-"," ","e","v","e","n","t"," ","c","o","m","p","i","l","e","d"," ","c","l","i","e","n","t"," ","a","n","d"," ","s","e","r","v","e","r"," ","s","u","c","c","e","s","s","f","u","l","l","y"," ","i","n"," ","2",".","3","s">>
MsgMillis == <<"-"," ","e","v","e","n","t"," ","c","o","m","p","i","l","e","d"," ","c","l","i","e","n","t"," ","a","n","d"," ","s","e","r","v","e","r"," ","s","u","c","c","e","s","s","f","u","l","l","y"," ","i","n"," ","8","5","0"," ","m","s">>
MsgDots == <<"-"," ","e","v","e","n","t"," ","c","o","m","p","i","l","e","d"," ","/","a",".",".","."," ","s","u","c","c","e","s","s","f","u","l","l","y"," ","i","n"," ","8","5","0"," ","m","s">>
MsgZero == <<"-"," ","e","v","e","n","t"," ","c","o","m","p","i","l","e","d"," ","/","b"," ","s","u","c","c","e","s","s","f","u","l","l","y"," ","i","n"," ","0"," ","m","s"," ","(","1","2"," ","m","o","d","u","l","e","s",")">>
MsgNoDuration == <<"-"," ","e","v","e","n","t"," ","c","o","m","p","i","l","e","d"," ","/","c"," ","s","u","c","c","e","s","s","f","u","l","l","y">>
MsgBoth == <<"-"," ","e","v","e","n","t"," ","c","o","m","p","i","l","e","d"," ","/","d"," ","s","u","c","c","e","s","s","f","u","l","l","y"," ","i","n"," ","9","0","0"," ","m","s"," ","(","1",".","5","s",")">>
MsgDuplicate == <<"D","u","p","l","i","c","a","t","e"," ","p","a","g","e"," ","d","e","t","e","c","t","e","d","."," ","a",".","t","s","x"," ","w","a","s"," ","s","u","c","c","e","s","s","f","u","l","l","y"," ","p","a","t","c","h","e","d">>
MsgLayout == <<"T","h","e"," ","p","a","g","e"," ","c","o","m","p","o","n","e","n","t"," ","i","s"," ","n","a","m","e","d"," ","\"","l","a","y","o","u","t","\"">>
MsgIndented == <<" "," "," "," "," "," "," "," ","-"," ","w","a","r","n"," ","a","p","p","/","l","a","y","o","u","t",".","t","s","x">>
MsgPatched == <<"-"," ","w","a","r","n"," ","D","e","p","r","e","c","a","t","i","o","n","W","a","r","n","i","n","g",":"," ","x"," ","w","a","s"," ","s","u","c","c","e","s","s","f","u","l","l","y"," ","p","a","t","c","h","e","d">>
MsgWarn == <<"w","a","r","n"," ","-"," ","D","e","p","r","e","c","a","t","i","o","n","W","a","r","n","i","n","g",":"," ","y">>
MsgDeprecation == <<"(","n","o","d","e",":","1",")"," ","D","e","p","r","e","c","a","t","i","o","n","W","a","r","n","i","n","g",":"," ","z">>
MsgBlank == <<" "," ">>
MsgOther == <<"r","e","a","d","y"," ","i","n"," ","3","s">>

Messages == {MsgWait, MsgSeconds, MsgMillis, MsgDots, MsgZero, MsgNoDuration,
             MsgBoth, MsgDuplicate, MsgLayout, MsgIndented, MsgPatched, MsgWarn,
             MsgDeprecation, MsgBlank, MsgOther}

\* The longest log sequence given to transformLogs.
MaxLogs == 3

LogInputs == UNION {[1..n -> Messages] : n \in 0..MaxLogs}

\* More wait lines and a compiled line without "successfully", for the runs
\* that look at the target of the events.
MsgWaitParens == <<"-"," ","w","a","i","t"," ","c","o","m","p","i","l","i","n","g"," ","/","a","b","o","u","t"," ","(","c","l","i","e","n","t"," ","a","n","d"," ","s","e","r","v","e","r",")",".",".",".">>
MsgWaitOnlyParens == <<"-"," ","w","a","i","t"," ","c","o","m","p","i","l","i","n","g"," ","(","c","l","i","e","n","t"," ","a","n","d"," ","s","e","r","v","e","r",")",".",".",".">>
MsgWaitBare == <<"-"," ","w","a","i","t"," ",".",".",".">>
MsgWaitOther == <<"-"," ","w","a","i","t"," ","r","e","s","t","a","r","t","i","n","g"," ","s","e","r","v","e","r">>
MsgNoTarget == <<"-"," ","e","v","e","n","t"," ","c","o","m","p","i","l","e","d"," ","i","n"," ","4","0"," ","m","s">>

WaitMessages == {MsgWait, MsgWaitParens, MsgWaitOnlyParens, MsgWaitBare, MsgWaitOther,
                 MsgSeconds, MsgNoDuration, MsgNoTarget, MsgDuplicate, MsgLayout,
                 MsgPatched, MsgWarn, MsgBlank, MsgOther}

\* The longest log sequence of those runs.
MaxWaitLogs == 3

WaitLogInputs == UNION {[1..n -> WaitMessages] : n \in 0..MaxWaitLogs}

AllMessages == Messages \cup WaitMessages

----------------------------------------------------------------------------
(* transformLogs and nextLogParser.parse *)

NoResult == [t |-> "none"]

emptyMetrics == [buildEvents |-> << >>, warnings |-> << >>, errors |-> << >>,
                 notes |-> << >>, summary |-> EmptySummary]

\* ruleOf with the patched test moved to the front of the chain.
ruleOf_patchedFirst(line) ==
    IF line = << >> THEN "blank"
    ELSE IF includes(line, PATCHED) THEN "patched"
    ELSE IF isWaitLine(line) THEN "wait"
    ELSE IF isEventCompiledLine(line) THEN "event"
    ELSE IF startsWith(line, DUPLICATE_PAGE) THEN "duplicate"
    ELSE IF startsWith(line, NAMED_LAYOUT) THEN "layout"
    ELSE IF startsWith(line, WARN_DASH) \/ startsWith(line, WARN_LEGACY) THEN "warn"
    ELSE IF includes(line, DEPRECATION) THEN "deprecation"
    ELSE "none"

\* The rule of the loop body that handles a trimmed line: the first test that
\* succeeds, every block ending in continue.
ruleOf(line) ==
    IF line = << >> THEN "blank"
    ELSE IF isWaitLine(line) THEN "wait"
    ELSE IF isEventCompiledLine(line) THEN "event"
    ELSE IF startsWith(line, DUPLICATE_PAGE) THEN "duplicate"
    ELSE IF startsWith(line, NAMED_LAYOUT) THEN "layout"
    ELSE IF includes(line, PATCHED) THEN "patched"
    ELSE IF startsWith(line, WARN_DASH) \/ startsWith(line, WARN_LEGACY) THEN "warn"
    ELSE IF includes(line, DEPRECATION) THEN "deprecation"
    ELSE "none"

\* The helpers on the messages of the model, evaluated once per message
\* rather than once per state.
TrimmedLine == [m \in AllMessages |-> trim(m)]
RuleOfMessage == [m \in AllMessages |-> ruleOf(TrimmedLine[m])]
WaitTargetOf == [m \in AllMessages |->
                   IF RuleOfMessage[m] = "wait"
                   THEN Str(normalizeWaitTarget(TrimmedLine[m])) ELSE Null]
WaitContexts == {WaitTargetOf[m] : m \in AllMessages} \cup {Null}
BuildEventOf == [m \in AllMessages |->
                   [c \in WaitContexts |->
                      IF RuleOfMessage[m] = "event"
                      THEN parseBuildEvent(TrimmedLine[m], c) ELSE Null]]
\* Every framework is given to the parser.
HandlesFramework_always == [f \in Frameworks |-> TRUE]

HandlesFramework == [f \in Frameworks |-> canHandle(f)]

\* The incremental classification before any line is received.
StreamStart == [received |-> 0, pendingWaitTarget |-> Null, buildEvents |-> << >>,
                warnings |-> << >>, errors |-> << >>, notes |-> << >>]

\* One transformLogs call is about to be made.
ParseInit ==
    /\ framework \in Frameworks
    /\ logs \in LogInputs
    /\ pc = "start"
    /\ idx = 1
    /\ lastWaitContext = Null
    /\ buildEvents = << >>
    /\ warnings = << >>
    /\ errors = << >>
    /\ notes = << >>
    /\ result = NoResult

\* No transformLogs call is made.
ParseIdle ==
    /\ framework = Null
    /\ logs = << >>
    /\ pc = "idle"
    /\ idx = 1
    /\ lastWaitContext = Null
    /\ buildEvents = << >>
    /\ warnings = << >>
    /\ errors = << >>
    /\ notes = << >>
    /\ result = NoResult

\* No line is replayed.
ReplayIdle ==
    /\ previous = NoResult
    /\ stream = StreamStart

\* No evaluate call is made.
EvaluateIdle ==
    /\ caller = "none"
    /\ env = Null
    /\ cliOptions = Null
    /\ evaluationContext = Null
    /\ options = Null
    /\ epc = "idle"
    /\ thresholds = Null
    /\ score = Null
    /\ level = Null
    /\ recommendations = << >>
    /\ issues = << >>
    /\ llmCall = "none"
    /\ llmSummary = Null
    /\ evaluation = NoResult

\* runAnalyze is not running.
AnalyzeIdle == devRun = "none"

\* No runDevWithLogs call is made.
CollectorIdle ==
    /\ child = "none"
    /\ pending = << >>
    /\ written = << >>
    /\ readers = << >>
    /\ collected = << >>
    /\ onLog = Null
    /\ cpc = "idle"

\* No readProjectFile call is made.
FileIdle ==
    /\ root = Null
    /\ relativePath = Null
    /\ disk = Null
    /\ fpc = "idle"
    /\ reads = {}
    /\ snapshot = NoResult

OtherIdle == AnalyzeIdle /\ CollectorIdle /\ FileIdle

Init == ParseInit /\ ReplayIdle /\ EvaluateIdle /\ OtherIdle

\* One transformLogs call on lines that open, overwrite and use wait targets.
WaitInit ==
    /\ framework \in Frameworks
    /\ logs \in WaitLogInputs
    /\ pc = "start"
    /\ idx = 1
    /\ lastWaitContext = Null
    /\ buildEvents = << >>
    /\ warnings = << >>
    /\ errors = << >>
    /\ notes = << >>
    /\ result = NoResult
    /\ ReplayIdle
    /\ EvaluateIdle
    /\ OtherIdle

\* transformLogs finds the parser and calls parse, which starts its loop.
ParserFound ==
    /\ pc = "start"
    /\ HandlesFramework[framework]
    /\ pc' = "parse"
    /\ UNCHANGED <<framework, logs, idx, lastWaitContext, buildEvents, warnings,
                   errors, notes, result>>
    /\ UNCHANGED <<replayVars, evaluateVars, otherVars>>

\* transformLogs finds no parser: defaultTransform.
DefaultTransform ==
    /\ pc = "start"
    /\ ~HandlesFramework[framework]
    /\ result' = [framework |-> framework, metrics |-> emptyMetrics, rawLogs |-> logs]
    /\ pc' = "done"
    /\ UNCHANGED <<framework, logs, idx, lastWaitContext, buildEvents, warnings,
                   errors, notes>>
    /\ UNCHANGED <<replayVars, evaluateVars, otherVars>>

\* One iteration of the loop is enabled on the entry at idx.
AtRule(r) ==
    /\ pc = "parse"
    /\ idx <= Len(logs)
    /\ RuleOfMessage[logs[idx]] = r

\* entry.message.trim() of the entry at idx
line == TrimmedLine[logs[idx]]

SkipLine ==
    /\ AtRule("blank") \/ AtRule("none")
    /\ idx' = idx + 1
    /\ UNCHANGED <<framework, logs, pc, lastWaitContext, buildEvents, warnings,
                   errors, notes, result>>
    /\ UNCHANGED <<replayVars, evaluateVars, otherVars>>

WaitLine ==
    /\ AtRule("wait")
    /\ lastWaitContext' = WaitTargetOf[logs[idx]]
    /\ idx' = idx + 1
    /\ UNCHANGED <<framework, logs, pc, buildEvents, warnings, errors, notes, result>>
    /\ UNCHANGED <<replayVars, evaluateVars, otherVars>>

\* EventCompiledLine without the reset of lastWaitContext.
EventCompiledLine_keepsContext ==
    /\ AtRule("event")
    /\ buildEvents' = Append(buildEvents, BuildEventOf[logs[idx]][lastWaitContext])
    /\ idx' = idx + 1
    /\ UNCHANGED <<framework, logs, pc, lastWaitContext, warnings, errors, notes, result>>
    /\ UNCHANGED <<replayVars, evaluateVars, otherVars>>

EventCompiledLine ==
    /\ AtRule("event")
    /\ buildEvents' = Append(buildEvents, BuildEventOf[logs[idx]][lastWaitContext])
    /\ lastWaitContext' = Null
    /\ idx' = idx + 1
    /\ UNCHANGED <<framework, logs, pc, warnings, errors, notes, result>>
    /\ UNCHANGED <<replayVars, evaluateVars, otherVars>>

\* DuplicatePageLine dropping the pending wait target.
DuplicatePageLine_clearsContext ==
    /\ AtRule("duplicate")
    /\ errors' = Append(errors, [level |-> "error", message |-> line])
    /\ lastWaitContext' = Null
    /\ idx' = idx + 1
    /\ UNCHANGED <<framework, logs, pc, buildEvents, warnings, notes, result>>
    /\ UNCHANGED <<replayVars, evaluateVars, otherVars>>

DuplicatePageLine ==
    /\ AtRule("duplicate")
    /\ errors' = Append(errors, [level |-> "error", message |-> line])
    /\ idx' = idx + 1
    /\ UNCHANGED <<framework, logs, pc, lastWaitContext, buildEvents, warnings,
                   notes, result>>
    /\ UNCHANGED <<replayVars, evaluateVars, otherVars>>

\* NamedLayoutLine moving the loop past the block it collected.
NamedLayoutLine_skipsBlock ==
    /\ AtRule("layout")
    /\ errors' = Append(errors, [level |-> "error", message |-> line,
                                 details |-> [routes |-> collectIndentedBlock(logs, idx)]])
    /\ idx' = idx + 1 + Len(collectIndentedBlock(logs, idx))
    /\ UNCHANGED <<framework, logs, pc, lastWaitContext, buildEvents, warnings,
                   notes, result>>
    /\ UNCHANGED <<replayVars, evaluateVars, otherVars>>

NamedLayoutLine ==
    /\ AtRule("layout")
    /\ errors' = Append(errors, [level |-> "error", message |-> line,
                                 details |-> [routes |-> collectIndentedBlock(logs, idx)]])
    /\ idx' = idx + 1
    /\ UNCHANGED <<framework, logs, pc, lastWaitContext, buildEvents, warnings,
                   notes, result>>
    /\ UNCHANGED <<replayVars, evaluateVars, otherVars>>

PatchedLine ==
    /\ AtRule("patched")
    /\ notes' = Append(notes, [level |-> "info", message |-> line])
    /\ idx' = idx + 1
    /\ UNCHANGED <<framework, logs, pc, lastWaitContext, buildEvents, warnings,
                   errors, result>>
    /\ UNCHANGED <<replayVars, evaluateVars, otherVars>>

\* WarnLine keeping one record per distinct message.
WarnLine_dedupes ==
    /\ AtRule("warn") \/ AtRule("deprecation")
    /\ warnings' = IF \E k \in 1..Len(warnings) : warnings[k].message = line
                   THEN warnings
                   ELSE Append(warnings, [level |-> "warning", message |-> line])
    /\ idx' = idx + 1
    /\ UNCHANGED <<framework, logs, pc, lastWaitContext, buildEvents, errors,
                   notes, result>>
    /\ UNCHANGED <<replayVars, evaluateVars, otherVars>>

WarnLine ==
    /\ AtRule("warn") \/ AtRule("deprecation")
    /\ warnings' = Append(warnings, [level |-> "warning", message |-> line])
    /\ idx' = idx + 1
    /\ UNCHANGED <<framework, logs, pc, lastWaitContext, buildEvents, errors,
                   notes, result>>
    /\ UNCHANGED <<replayVars, evaluateVars, otherVars>>

\* ReturnResult handing back the trimmed lines instead of the entries.
ReturnResult_trimmedRawLogs ==
    /\ pc = "parse"
    /\ idx > Len(logs)
    /\ result' = [framework |-> framework,
                  metrics |-> [buildEvents |-> buildEvents, warnings |-> warnings,
                               errors |-> errors, notes |-> notes,
                               summary |-> summarize(buildEvents)],
                  rawLogs |-> [k \in 1..Len(logs) |-> TrimmedLine[logs[k]]]]
    /\ pc' = "done"
    /\ UNCHANGED <<framework, logs, idx, lastWaitContext, buildEvents, warnings,
                   errors, notes>>
    /\ UNCHANGED <<replayVars, evaluateVars, otherVars>>

\* The loop is over: parse returns.
ReturnResult ==
    /\ pc = "parse"
    /\ idx > Len(logs)
    /\ result' = [framework |-> framework,
                  metrics |-> [buildEvents |-> buildEvents, warnings |-> warnings,
                               errors |-> errors, notes |-> notes,
                               summary |-> summarize(buildEvents)],
                  rawLogs |-> logs]
    /\ pc' = "done"
    /\ UNCHANGED <<framework, logs, idx, lastWaitContext, buildEvents, warnings,
                   errors, notes>>
    /\ UNCHANGED <<replayVars, evaluateVars, otherVars>>

Next ==
    \/ ParserFound
    \/ DefaultTransform
    \/ SkipLine
    \/ WaitLine
    \/ EventCompiledLine
    \/ DuplicatePageLine
    \/ NamedLayoutLine
    \/ PatchedLine
    \/ WarnLine
    \/ ReturnResult

Spec == Init /\ [][Next]_vars

WaitSpec == WaitInit /\ [][Next]_vars

----------------------------------------------------------------------------
(* Replaying the lines of a call *)

\* A caller hands the rawLogs of the result to transformLogs again, with the
\* same framework; the first result is kept for comparison.
Reparse ==
    /\ pc = "done"
    /\ previous = NoResult
    /\ previous' = result
    /\ logs' = result.rawLogs
    /\ pc' = "start"
    /\ idx' = 1
    /\ lastWaitContext' = Null
    /\ buildEvents' = << >>
    /\ warnings' = << >>
    /\ errors' = << >>
    /\ notes' = << >>
    /\ result' = NoResult
    /\ UNCHANGED <<framework, stream, evaluateVars, otherVars>>

RoundTripNext ==
    \/ ParserFound
    \/ DefaultTransform
    \/ SkipLine
    \/ WaitLine
    \/ EventCompiledLine
    \/ DuplicatePageLine
    \/ NamedLayoutLine
    \/ PatchedLine
    \/ WarnLine
    \/ ReturnResult
    \/ Reparse

RoundTripSpec == Init /\ [][RoundTripNext]_vars

\* The body of the loop of parse on the line m, the last of the lines
\* received so far, for a classifier that carries the state st from line to
\* line.  The rules and the helpers are those of parse; the entries the
\* named-layout rule can look at are the received ones.
classifyLine(st, received, m) ==
    LET r == RuleOfMessage[m]
        text == TrimmedLine[m]
        seen == [st EXCEPT !.received = Len(received)]
    IN CASE r = "wait" ->
              [seen EXCEPT !.pendingWaitTarget = WaitTargetOf[m]]
         [] r = "event" ->
              [seen EXCEPT !.buildEvents = Append(@, BuildEventOf[m][st.pendingWaitTarget]),
                           !.pendingWaitTarget = Null]
         [] r = "duplicate" ->
              [seen EXCEPT !.errors = Append(@, [level |-> "error", message |-> text])]
         [] r = "layout" ->
              [seen EXCEPT !.errors =
                  Append(@, [level |-> "error", message |-> text,
                             details |-> [routes |->
                                 collectIndentedBlock(received, Len(received))]])]
         [] r = "patched" ->
              [seen EXCEPT !.notes = Append(@, [level |-> "info", message |-> text])]
         [] r \in {"warn", "deprecation"} ->
              [seen EXCEPT !.warnings = Append(@, [level |-> "warning", message |-> text])]
         [] OTHER -> seen

\* The next line of the collected sequence is received and classified.
ReceiveLine ==
    /\ pc = "done"
    /\ HandlesFramework[framework]
    /\ stream.received < Len(logs)
    /\ stream' = classifyLine(stream, SubSeq(logs, 1, stream.received + 1),
                              logs[stream.received + 1])
    /\ UNCHANGED <<parseVars, previous, evaluateVars, otherVars>>

\* The Metrics of the incremental classification.
streamMetrics ==
    [buildEvents |-> stream.buildEvents, warnings |-> stream.warnings,
     errors |-> stream.errors, notes |-> stream.notes,
     summary |-> summarize(stream.buildEvents)]

StreamNext ==
    \/ ParserFound
    \/ DefaultTransform
    \/ SkipLine
    \/ WaitLine
    \/ EventCompiledLine
    \/ DuplicatePageLine
    \/ NamedLayoutLine
    \/ PatchedLine
    \/ WarnLine
    \/ ReturnResult
    \/ ReceiveLine

StreamSpec == Init /\ [][StreamNext]_vars

----------------------------------------------------------------------------
(* The evaluator: evaluator/index.ts and evaluator/llm.ts *)

\* undefined, where the code tells it from null.
Undefined == [t |-> "undefined"]

\* !s for a string or null or undefined.
FalsyString(s) == s = Null \/ s = Undefined \/ (s.t = "string" /\ s.v = << >>)

\* a ?? b
Coalesce(a, b) == IF a = Null \/ a = Undefined THEN b ELSE a

\* String(n) for a whole number n >= 0.
RECURSIVE NatToString(_)
NatToString(n) == IF n < 10 THEN <<Digits[n + 1]>>
                  ELSE NatToString(n \div 10) \o <<Digits[(n % 10) + 1]>>

\* String(x) for a number x >= 0 in thousandths: the whole part, then the
\* fraction without its trailing zeros.
numberToString(x) ==
    LET frac == x % 1000
        digits == <<Digits[(frac \div 100) + 1], Digits[((frac \div 10) % 10) + 1],
                    Digits[(frac % 10) + 1]>>
        kept == Max({k \in 1..3 : digits[k] # "0"} \cup {0})
    IN NatToString(x \div 1000)
       \o (IF frac = 0 THEN << >> ELSE <<".">> \o SubSeq(digits, 1, kept))

\* parts.join(separator)
RECURSIVE join(_, _)
join(parts, separator) ==
    IF parts = << >> THEN << >>
    ELSE IF Len(parts) = 1 THEN parts[1]
    ELSE parts[1] \o separator \o join(Tail(parts), separator)

\* Math.ceil(x / d) for d > 0.
MathCeilOfQuotient(x, d) == -((-x) \div d)

\* The defaults of evaluate; slowBuildMs is in thousandths like the durations.
DefaultThresholds == [warningPenalty |-> 5, errorPenalty |-> 20, slowBuildMs |-> Ms(30000)]

\* { ...defaults, ...(options.thresholds ?? {}) }: given is a function on the
\* keys the caller passed, or Undefined.
mergeThresholds(given) ==
    [k \in DOMAIN DefaultThresholds |->
        IF k \in DOMAIN given THEN given[k] ELSE DefaultThresholds[k]]

\* Number(metrics.summary?.longestBuildMs ?? 0)
longestBuildOf(metrics) ==
    IF "longestBuildMs" \in DOMAIN metrics.summary
    THEN Coalesce(metrics.summary.longestBuildMs, Num(0))
    ELSE Num(0)

\* longest && longest > thresholds.slowBuildMs
isSlowBuild(longest, th) == ~Falsy(longest) /\ longest.v > th.slowBuildMs

\* issuePenalty with the warnings added instead of subtracted.
issuePenalty_warningsRewarded(metrics, th) ==
    Len(metrics.errors) * th.errorPenalty - Len(metrics.warnings) * th.warningPenalty

\* What the two statements score -= ... take off for the issues.
issuePenalty(metrics, th) ==
    Len(metrics.errors) * th.errorPenalty + Len(metrics.warnings) * th.warningPenalty

\* slowBuildPenalty rounding down instead of up.
slowBuildPenalty_roundsDown(longest, th) ==
    IF isSlowBuild(longest, th)
    THEN Min({30, ((longest.v - th.slowBuildMs) \div Ms(10000)) * 5})
    ELSE 0

\* What the if statement on longestBuild takes off.
slowBuildPenalty(longest, th) ==
    IF isSlowBuild(longest, th)
    THEN Min({30, MathCeilOfQuotient(longest.v - th.slowBuildMs, Ms(10000)) * 5})
    ELSE 0

\* clampScore without the lower limit.
clampScore_noLowerLimit(s) == Min({100, s})

\* Math.max(0, Math.min(100, score))
clampScore(s) == Max({0, Min({100, s})})

\* The score of evaluate before the level is derived.
computeScore(metrics, th) ==
    clampScore(100 - issuePenalty(metrics, th)
                   - slowBuildPenalty(longestBuildOf(metrics), th))

\* deriveLevel with the limits excluded.
deriveLevel_exclusive(s) ==
    IF s > 85 THEN "Excellent"
    ELSE IF s > 70 THEN "Good"
    ELSE IF s > 50 THEN "Average"
    ELSE "Poor"

deriveLevel(s) ==
    IF s >= 85 THEN "Excellent"
    ELSE IF s >= 70 THEN "Good"
    ELSE IF s >= 50 THEN "Average"
    ELSE "Poor"

\* issue.details, undefined when the Issue has none.
detailsOf(issue) == IF "details" \in DOMAIN issue THEN issue.details ELSE Undefined

\* The recommendations of the two for..of loops of buildRecommendations.
errorRecommendations(metrics) ==
    [k \in 1..Len(metrics.errors) |->
        [level |-> "critical", message |-> metrics.errors[k].message,
         details |-> detailsOf(metrics.errors[k])]]

warningRecommendations(metrics) ==
    [k \in 1..Len(metrics.warnings) |->
        [level |-> "warning", message |-> metrics.warnings[k].message,
         details |-> detailsOf(metrics.warnings[k])]]

\* slowBuildRecommendation with a test of its own: at the threshold already.
slowBuildRecommendation_atThreshold(metrics, th) ==
    LET longest == longestBuildOf(metrics)
    IN IF ~Falsy(longest) /\ longest.v >= th.slowBuildMs
       THEN <<[level |-> "warning",
               message |-> <<"B","u","i","l","d"," ","s","t","e","p","U+8017","U+65F6"," ">> \o numberToString(longest.v)
                           \o <<" ","m","s","U+FF0C","U+8D85","U+8FC7","U+9608","U+503C"," ">> \o numberToString(th.slowBuildMs)
                           \o <<" ","m","s","U+FF0C","U+5EFA","U+8BAE","U+68C0","U+67E5","U+61D2","U+52A0","U+8F7D","U+3001","U+7F13","U+5B58","U+6216","U+4EE3","U+7801","U+62C6","U+5206","U+3002">>,
               details |-> [longestBuildMs |-> longest]]>>
       ELSE << >>

\* The slow-build recommendation, as the list of what is pushed.
slowBuildRecommendation(metrics, th) ==
    LET longest == longestBuildOf(metrics)
    IN IF isSlowBuild(longest, th)
       THEN <<[level |-> "warning",
               message |-> <<"B","u","i","l","d"," ","s","t","e","p","U+8017","U+65F6"," ">> \o numberToString(longest.v)
                           \o <<" ","m","s","U+FF0C","U+8D85","U+8FC7","U+9608","U+503C"," ">> \o numberToString(th.slowBuildMs)
                           \o <<" ","m","s","U+FF0C","U+5EFA","U+8BAE","U+68C0","U+67E5","U+61D2","U+52A0","U+8F7D","U+3001","U+7F13","U+5B58","U+6216","U+4EE3","U+7801","U+62C6","U+5206","U+3002">>,
               details |-> [longestBuildMs |-> longest]]>>
       ELSE << >>

\* The missing-configuration recommendation, as the list of what is pushed.
missingConfigRecommendation(configFiles) ==
    LET missingConfigs == SelectSeq(configFiles, LAMBDA file : ~file.exists)
    IN IF Len(missingConfigs) # 0
       THEN <<[level |-> "info",
               message |-> <<"U+672A","U+627E","U+5230","U+90E8","U+5206","U+914D","U+7F6E","U+6587","U+4EF6","U+FF1A">>
                           \o join([k \in 1..Len(missingConfigs) |-> missingConfigs[k].path],
                                   <<","," ">>)]>>
       ELSE << >>

\* buildRecommendations pushing the slow-build recommendation first.
buildRecommendations_slowFirst(context, th) ==
    slowBuildRecommendation(context.metrics, th)
    \o errorRecommendations(context.metrics)
    \o warningRecommendations(context.metrics)
    \o missingConfigRecommendation(context.configFiles)

buildRecommendations(context, th) ==
    errorRecommendations(context.metrics)
    \o warningRecommendations(context.metrics)
    \o slowBuildRecommendation(context.metrics, th)
    \o missingConfigRecommendation(context.configFiles)

buildSummary(metrics, s, longestBuild) ==
    join(<<<<"S","c","o","r","e"," ">> \o NatToString(s) \o <<"/","1","0","0">>,
           <<"E","r","r","o","r","s"," ">> \o NatToString(Len(metrics.errors)),
           <<"W","a","r","n","i","n","g","s"," ">> \o NatToString(Len(metrics.warnings))>>
         \o (IF Len(metrics.buildEvents) # 0
             THEN <<<<"B","u","i","l","d"," ","e","v","e","n","t","s"," ">> \o NatToString(Len(metrics.buildEvents))>>
             ELSE << >>)
         \o (IF ~Falsy(longestBuild)
             THEN <<<<"L","o","n","g","e","s","t"," ","b","u","i","l","d"," ">> \o numberToString(longestBuild.v) \o <<" ","m","s">>>>
             ELSE << >>),
         <<" ","U+00B7"," ">>)

\* collectIssues with the warnings in front.
collectIssues_warningsFirst(metrics) == metrics.warnings \o metrics.errors

\* [...metrics.errors, ...metrics.warnings]
collectIssues(metrics) == metrics.errors \o metrics.warnings

\* resolveConfig of llm.ts: the key and the enabled flag it settles on.  llm
\* is a record of the options the caller passed, or Undefined.
resolveConfig(llm, envKey) ==
    LET given(k) == IF k \in DOMAIN llm THEN llm[k] ELSE Undefined
        apiKey == Coalesce(Coalesce(given("apiKey"), envKey), Str(<< >>))
    IN [apiKey |-> apiKey,
        enabled |-> IF "enabled" \in DOMAIN llm THEN llm.enabled
                    ELSE ~FalsyString(apiKey)]

----------------------------------------------------------------------------
(* The inputs of an evaluate call *)

\* The most issues, errors and warnings together, of a Metrics.
MaxIssues == 3

SeqsUpTo(S, n) == UNION {[1..k -> S] : k \in 0..n}

ErrorInputs ==
    {[level |-> "error", message |-> TrimmedLine[MsgDuplicate]],
     [level |-> "error", message |-> TrimmedLine[MsgLayout],
      details |-> [routes |-> <<TrimmedLine[MsgIndented]>>]]}

WarningInputs ==
    {[level |-> "warning", message |-> TrimmedLine[MsgWarn]],
     [level |-> "warning", message |-> TrimmedLine[MsgDeprecation]]}

\* The durations of the one build event of a Metrics: none, NaN, and values
\* around the limits of the slow-build penalty.
DurationInputs ==
    {Null, NaN, Num(0), Num(Ms(30000)), Num(Ms(30000) + 500), Num(Ms(45000)),
     Num(Ms(90000))}

BuildEventInputs ==
    {<< >>} \cup {<<[target |-> BUILD, durationMs |-> d, modules |-> Null,
                     type |-> "incremental"]>> : d \in DurationInputs}

MetricsInputs ==
    {[buildEvents |-> evs, warnings |-> ws, errors |-> es, notes |-> << >>,
      summary |-> summarize(evs)] :
        evs \in BuildEventInputs,
        <<es, ws>> \in {p \in SeqsUpTo(ErrorInputs, MaxIssues)
                                 \X SeqsUpTo(WarningInputs, MaxIssues) :
                            Len(p[1]) + Len(p[2]) <= MaxIssues}}

\* The snapshots of two configuration candidates: both found, one missing,
\* both missing.
ConfigFileInputs ==
    {<<[path |-> <<"p","a","c","k","a","g","e",".","j","s","o","n">>, exists |-> found >= 1],
       [path |-> <<"t","s","c","o","n","f","i","g",".","j","s","o","n">>, exists |-> found >= 2]>> : found \in 0..2}

ContextInputs ==
    {[metrics |-> m, configFiles |-> c] : m \in MetricsInputs, c \in ConfigFileInputs}

\* The thresholds a caller overrides: none, one penalty, the other penalty
\* and the slow-build limit, all three; with whole values >= 0.
OverriddenThresholds == [warningPenalty |-> 1, errorPenalty |-> 60, slowBuildMs |-> 0]
ThresholdInputs ==
    {[k \in keys |-> OverriddenThresholds[k]] :
        keys \in {{}, {"warningPenalty"}, {"errorPenalty", "slowBuildMs"},
                  DOMAIN OverriddenThresholds}}

API_KEY == <<"s","k","-","t","e","s","t">>

\* options.llm and OPENAI_API_KEY of a library call: nothing configured, a key
\* in the environment, a key with the flag off, the flag on without a key, the
\* flag on with a key.
LibraryLlmInputs ==
    {[llm |-> Undefined, env |-> Undefined],
     [llm |-> Undefined, env |-> Str(API_KEY)],
     [llm |-> [enabled |-> FALSE, apiKey |-> Str(API_KEY)], env |-> Undefined],
     [llm |-> [enabled |-> TRUE], env |-> Undefined],
     [llm |-> [enabled |-> TRUE, apiKey |-> Str(API_KEY)], env |-> Undefined]}

\* --llm-api-key and OPENAI_API_KEY of an analyze run.
CliKeyInputs ==
    {[llmApiKey |-> Undefined, env |-> Undefined],
     [llmApiKey |-> Undefined, env |-> Str(<< >>)],
     [llmApiKey |-> Undefined, env |-> Str(API_KEY)],
     [llmApiKey |-> Str(API_KEY), env |-> Undefined]}

----------------------------------------------------------------------------
(* One evaluate call, by a library user or by runAnalyze *)

\* A library user is about to call evaluate; or runAnalyze has loaded the
\* evaluation context and is about to look for the API key.
EvaluateInit ==
    /\ ParseIdle
    /\ ReplayIdle
    /\ OtherIdle
    /\ caller \in {"evaluate", "runAnalyze"}
    /\ evaluationContext \in ContextInputs
    /\ \/ /\ caller = "evaluate"
          /\ \E k \in LibraryLlmInputs, t \in ThresholdInputs :
                /\ env = k.env
                /\ options = [thresholds |-> t, llm |-> k.llm]
          /\ cliOptions = Undefined
          /\ epc = "evaluate"
       \/ /\ caller = "runAnalyze"
          /\ \E k \in CliKeyInputs :
                /\ env = k.env
                /\ cliOptions = [llmApiKey |-> k.llmApiKey]
          /\ options = Undefined
          /\ epc = "apiKey"
    /\ thresholds = Null
    /\ score = Null
    /\ level = Null
    /\ recommendations = << >>
    /\ issues = << >>
    /\ llmCall = "none"
    /\ llmSummary = Null
    /\ evaluation = NoResult

\* options.llmApiKey ?? process.env.OPENAI_API_KEY of runAnalyze
cliApiKey == Coalesce(cliOptions.llmApiKey, env)

\* runAnalyze finds no API key and throws.
MissingApiKey ==
    /\ epc = "apiKey"
    /\ FalsyString(cliApiKey)
    /\ epc' = "threw"
    /\ UNCHANGED <<caller, env, cliOptions, evaluationContext, options, thresholds, score,
                   level, recommendations, issues, llmCall, llmSummary, evaluation>>
    /\ UNCHANGED <<parseVars, replayVars, otherVars>>

\* runAnalyze calls evaluate with the LLM enabled and the key it found.
CallEvaluate ==
    /\ epc = "apiKey"
    /\ ~FalsyString(cliApiKey)
    /\ options' = [thresholds |-> Undefined, llm |-> [enabled |-> TRUE, apiKey |-> cliApiKey]]
    /\ epc' = "evaluate"
    /\ UNCHANGED <<caller, env, cliOptions, evaluationContext, thresholds, score, level,
                   recommendations, issues, llmCall, llmSummary, evaluation>>
    /\ UNCHANGED <<parseVars, replayVars, otherVars>>

\* evaluate up to its call of generateLlmInsights.
ComputeScore ==
    /\ epc = "evaluate"
    /\ thresholds' = mergeThresholds(options.thresholds)
    /\ score' = computeScore(evaluationContext.metrics, thresholds')
    /\ level' = deriveLevel(score')
    /\ recommendations' = buildRecommendations(evaluationContext, thresholds')
    /\ issues' = collectIssues(evaluationContext.metrics)
    /\ epc' = "llm"
    /\ UNCHANGED <<caller, env, cliOptions, evaluationContext, options, llmCall, llmSummary,
                   evaluation>>
    /\ UNCHANGED <<parseVars, replayVars, otherVars>>

\* generateLlmInsights is enabled on these options.
llmConfigured ==
    LET config == resolveConfig(options.llm, env)
    IN config.enabled /\ ~FalsyString(config.apiKey)

\* generateLlmInsights returns null without a call.
LlmNotConfigured ==
    /\ epc = "llm"
    /\ ~llmConfigured
    /\ llmCall' = "skipped"
    /\ llmSummary' = Null
    /\ epc' = "return"
    /\ UNCHANGED <<caller, env, cliOptions, evaluationContext, options, thresholds, score,
                   level, recommendations, issues, evaluation>>
    /\ UNCHANGED <<parseVars, replayVars, otherVars>>

\* callOpenAi resolves with a summary that is not empty.
LlmResponds ==
    /\ epc = "llm"
    /\ llmConfigured
    /\ llmCall' = "ok"
    /\ llmSummary' = [summary |-> <<"E","n","a","b","l","e"," ","c","a","c","h","i","n","g",".">>, provider |-> "openai"]
    /\ epc' = "return"
    /\ UNCHANGED <<caller, env, cliOptions, evaluationContext, options, thresholds, score,
                   level, recommendations, issues, evaluation>>
    /\ UNCHANGED <<parseVars, replayVars, otherVars>>

\* The ways callOpenAi throws: fetch rejects, the status is not a success,
\* the trimmed content is empty.
LlmFailures == {"network", "status", "empty"}

\* LlmFails without the catch: the error leaves evaluate.
LlmFails_uncaught ==
    /\ epc = "llm"
    /\ llmConfigured
    /\ \E failure \in LlmFailures : llmCall' = failure
    /\ epc' = "rejected"
    /\ UNCHANGED <<caller, env, cliOptions, evaluationContext, options, thresholds, score,
                   level, recommendations, issues, llmSummary, evaluation>>
    /\ UNCHANGED <<parseVars, replayVars, otherVars>>

\* callOpenAi throws; generateLlmInsights catches, warns and returns null.
LlmFails ==
    /\ epc = "llm"
    /\ llmConfigured
    /\ \E failure \in LlmFailures : llmCall' = failure
    /\ llmSummary' = Null
    /\ epc' = "return"
    /\ UNCHANGED <<caller, env, cliOptions, evaluationContext, options, thresholds, score,
                   level, recommendations, issues, evaluation>>
    /\ UNCHANGED <<parseVars, replayVars, otherVars>>

\* evaluate returns its result, to runAnalyze or to the library user.
ReturnEvaluation ==
    /\ epc = "return"
    /\ evaluation' =
          [score |-> score, level |-> level,
           summary |-> buildSummary(evaluationContext.metrics, score,
                                    longestBuildOf(evaluationContext.metrics)),
           recommendations |-> recommendations, issues |-> issues,
           context |-> evaluationContext,
           llm |-> Coalesce(llmSummary, Undefined)]
    /\ epc' = IF caller = "runAnalyze" THEN "report" ELSE "done"
    /\ UNCHANGED <<caller, env, cliOptions, evaluationContext, options, thresholds, score,
                   level, recommendations, issues, llmCall, llmSummary>>
    /\ UNCHANGED <<parseVars, replayVars, otherVars>>

\* runAnalyze writes the reports of the evaluation and ends.
WriteReports ==
    /\ epc = "report"
    /\ epc' = "done"
    /\ UNCHANGED <<caller, env, cliOptions, evaluationContext, options, thresholds, score,
                   level, recommendations, issues, llmCall, llmSummary, evaluation>>
    /\ UNCHANGED <<parseVars, replayVars, otherVars>>

EvaluateNext ==
    \/ MissingApiKey
    \/ CallEvaluate
    \/ ComputeScore
    \/ LlmNotConfigured
    \/ LlmResponds
    \/ LlmFails
    \/ ReturnEvaluation
    \/ WriteReports

EvaluateSpec == EvaluateInit /\ [][EvaluateNext]_vars

----------------------------------------------------------------------------
(* runAnalyze: the first transform, the dev stage, loadEvaluationContext, *)
(* the API key, evaluate and the reports                                   *)

\* The lines a dev run hands back: one line for each rule of the parser.
DevMessages == {MsgWait, MsgSeconds, MsgDuplicate, MsgLayout, MsgPatched, MsgWarn,
                MsgOther}

\* The longest log sequence of a dev run.
MaxDevLogs == 2

DevLogInputs == UNION {[1..n -> DevMessages] : n \in 0..MaxDevLogs}

\* runAnalyze has detected the framework and is about to make its first
\* transformLogs call, on no logs.
AnalyzeInit ==
    /\ framework \in Frameworks
    /\ logs = << >>
    /\ pc = "start"
    /\ idx = 1
    /\ lastWaitContext = Null
    /\ buildEvents = << >>
    /\ warnings = << >>
    /\ errors = << >>
    /\ notes = << >>
    /\ result = NoResult
    /\ ReplayIdle
    /\ caller = "runAnalyze"
    /\ \E k \in CliKeyInputs, s \in BOOLEAN :
          /\ env = k.env
          /\ cliOptions = [llmApiKey |-> k.llmApiKey, skipDev |-> s]
    /\ evaluationContext = Null
    /\ options = Undefined
    /\ epc = "transform"
    /\ thresholds = Null
    /\ score = Null
    /\ level = Null
    /\ recommendations = << >>
    /\ issues = << >>
    /\ llmCall = "none"
    /\ llmSummary = Null
    /\ evaluation = NoResult
    /\ devRun = "pending"
    /\ CollectorIdle
    /\ FileIdle

\* --skip-dev: the first transform is kept.
SkipDev ==
    /\ epc = "transform"
    /\ pc = "done"
    /\ cliOptions.skipDev
    /\ devRun' = "skipped"
    /\ epc' = "load"
    /\ UNCHANGED <<caller, env, cliOptions, evaluationContext, options, thresholds, score,
                   level, recommendations, issues, llmCall, llmSummary, evaluation>>
    /\ UNCHANGED <<parseVars, replayVars, collectorVars, fileVars>>

\* runDevWithLogs resolves (whatever the exit code): transformLogs is called
\* on its logs.  transform keeps its value until that call returns.
DevSucceeds ==
    /\ epc = "transform"
    /\ pc = "done"
    /\ ~cliOptions.skipDev
    /\ \E devLogs \in DevLogInputs : logs' = devLogs
    /\ pc' = "start"
    /\ idx' = 1
    /\ lastWaitContext' = Null
    /\ buildEvents' = << >>
    /\ warnings' = << >>
    /\ errors' = << >>
    /\ notes' = << >>
    /\ devRun' = "succeeded"
    /\ epc' = "devTransform"
    /\ UNCHANGED <<framework, result>>
    /\ UNCHANGED <<caller, env, cliOptions, evaluationContext, options, thresholds, score,
                   level, recommendations, issues, llmCall, llmSummary, evaluation>>
    /\ UNCHANGED <<replayVars, collectorVars, fileVars>>

\* runDevWithLogs rejects: the catch block logs the error and the first
\* transform is kept.
DevFails ==
    /\ epc = "transform"
    /\ pc = "done"
    /\ ~cliOptions.skipDev
    /\ devRun' = "failed"
    /\ epc' = "load"
    /\ UNCHANGED <<caller, env, cliOptions, evaluationContext, options, thresholds, score,
                   level, recommendations, issues, llmCall, llmSummary, evaluation>>
    /\ UNCHANGED <<parseVars, replayVars, collectorVars, fileVars>>

\* loadEvaluationContext on the transform: its metrics and the snapshots of
\* the configuration candidates.
LoadEvaluationContext ==
    /\ epc \in {"load", "devTransform"}
    /\ pc = "done"
    /\ \E configFiles \in ConfigFileInputs :
          evaluationContext' = [metrics |-> result.metrics, configFiles |-> configFiles]
    /\ epc' = "apiKey"
    /\ UNCHANGED <<caller, env, cliOptions, options, thresholds, score,
                   level, recommendations, issues, llmCall, llmSummary, evaluation>>
    /\ UNCHANGED <<parseVars, replayVars, otherVars>>

AnalyzeNext ==
    \/ ParserFound
    \/ DefaultTransform
    \/ SkipLine
    \/ WaitLine
    \/ EventCompiledLine
    \/ DuplicatePageLine
    \/ NamedLayoutLine
    \/ PatchedLine
    \/ WarnLine
    \/ ReturnResult
    \/ SkipDev
    \/ DevSucceeds
    \/ DevFails
    \/ LoadEvaluationContext
    \/ MissingApiKey
    \/ CallEvaluate
    \/ ComputeScore
    \/ LlmResponds
    \/ LlmFails
    \/ ReturnEvaluation
    \/ WriteReports

AnalyzeSpec == AnalyzeInit /\ [][AnalyzeNext]_vars

----------------------------------------------------------------------------
(* runDevWithLogs: the child, its two streams and handleLog *)

Streams == {"stdout", "stderr"}

\* The most lines the child writes to one stream.
MaxStreamLines == 2

\* The n-th line of a stream, as the LogEntry collectStream builds for it.
LineEntry(type, n) == [type |-> type, n |-> n]

\* The entry onSigint pushes: it is typed stdout and comes from no stream.
interruptionEntry == [type |-> "stdout", n |-> 0]

\* The child is spawned, collectStream has attached a reader to each stream
\* and runDevWithLogs awaits the exit of the child.
CollectorInit ==
    /\ ParseIdle
    /\ ReplayIdle
    /\ EvaluateIdle
    /\ AnalyzeIdle
    /\ FileIdle
    /\ child = "running"
    /\ pending = [s \in Streams |-> << >>]
    /\ written = [s \in Streams |-> 0]
    /\ readers = [s \in Streams |-> "open"]
    /\ collected = << >>
    /\ onLog \in {[given |-> g, calls |-> << >>] : g \in BOOLEAN}
    /\ cpc = "awaitExit"

\* handleLog: logs.push(entry); options.onLog?.(entry)
handleLog(entry) ==
    /\ collected' = Append(collected, entry)
    /\ onLog' = IF onLog.given THEN [onLog EXCEPT !.calls = Append(@, entry)] ELSE onLog

\* The child writes one more line to a stream it has not closed.
ChildWrites(s) ==
    /\ child = "running"
    /\ readers[s] = "open"
    /\ written[s] < MaxStreamLines
    /\ written' = [written EXCEPT ![s] = @ + 1]
    /\ pending' = [pending EXCEPT ![s] = Append(@, LineEntry(s, written[s] + 1))]
    /\ UNCHANGED <<child, readers, collected, onLog, cpc>>
    /\ UNCHANGED <<parseVars, replayVars, evaluateVars, analyzeVars, fileVars>>

\* The reader of a stream emits "line": collectStream calls onLog, which is
\* handleLog.
ReaderLine(s) ==
    /\ readers[s] = "open"
    /\ pending[s] # << >>
    /\ handleLog(Head(pending[s]))
    /\ pending' = [pending EXCEPT ![s] = Tail(@)]
    /\ UNCHANGED <<child, written, readers, cpc>>
    /\ UNCHANGED <<parseVars, replayVars, evaluateVars, analyzeVars, fileVars>>

\* A stream ends after its last line was delivered: the reader emits "close"
\* and the promise of collectStream resolves.
ReaderCloses(s) ==
    /\ readers[s] = "open"
    /\ pending[s] = << >>
    /\ readers' = [readers EXCEPT ![s] = "closed"]
    /\ UNCHANGED <<child, pending, written, collected, onLog, cpc>>
    /\ UNCHANGED <<parseVars, replayVars, evaluateVars, analyzeVars, fileVars>>

\* A stream emits "error": the promise of collectStream resolves, the reader
\* has not closed and what it had not delivered is lost.
StreamError(s) ==
    /\ readers[s] = "open"
    /\ readers' = [readers EXCEPT ![s] = "error"]
    /\ pending' = [pending EXCEPT ![s] = << >>]
    /\ UNCHANGED <<child, written, collected, onLog, cpc>>
    /\ UNCHANGED <<parseVars, replayVars, evaluateVars, analyzeVars, fileVars>>

\* Ctrl+C while runDevWithLogs is running (process.once): the child is sent
\* SIGINT and the interruption entry goes through handleLog.
onSigint ==
    /\ cpc \in {"awaitExit", "awaitStreams"}
    /\ \A k \in 1..Len(collected) : collected[k] # interruptionEntry
    /\ handleLog(interruptionEntry)
    /\ UNCHANGED <<child, pending, written, readers, cpc>>
    /\ UNCHANGED <<parseVars, replayVars, evaluateVars, analyzeVars, fileVars>>

\* The child emits "exit": the awaited promise resolves.
ChildExits ==
    /\ child = "running"
    /\ child' = "exited"
    /\ cpc' = "awaitStreams"
    /\ UNCHANGED <<pending, written, readers, collected, onLog>>
    /\ UNCHANGED <<parseVars, replayVars, evaluateVars, analyzeVars, fileVars>>

\* The child emits "error" (the command cannot be spawned): the awaited
\* promise rejects and so does runDevWithLogs.
ChildError ==
    /\ child = "running"
    /\ child' = "error"
    /\ cpc' = "rejected"
    /\ UNCHANGED <<pending, written, readers, collected, onLog>>
    /\ UNCHANGED <<parseVars, replayVars, evaluateVars, analyzeVars, fileVars>>

\* ReturnDevResult without await Promise.all([stdoutPromise, stderrPromise]).
ReturnDevResult_beforeStreams ==
    /\ cpc = "awaitStreams"
    /\ cpc' = "returned"
    /\ UNCHANGED <<child, pending, written, readers, collected, onLog>>
    /\ UNCHANGED <<parseVars, replayVars, evaluateVars, analyzeVars, fileVars>>

\* Both promises of collectStream have resolved: runDevWithLogs returns
\* { exitCode, signal, logs }.
ReturnDevResult ==
    /\ cpc = "awaitStreams"
    /\ \A s \in Streams : readers[s] \in {"closed", "error"}
    /\ cpc' = "returned"
    /\ UNCHANGED <<child, pending, written, readers, collected, onLog>>
    /\ UNCHANGED <<parseVars, replayVars, evaluateVars, analyzeVars, fileVars>>

CollectorNext ==
    \/ \E s \in Streams : ChildWrites(s)
    \/ \E s \in Streams : ReaderLine(s)
    \/ \E s \in Streams : ReaderCloses(s)
    \/ \E s \in Streams : StreamError(s)
    \/ onSigint
    \/ ChildExits
    \/ ChildError
    \/ ReturnDevResult

CollectorSpec == CollectorInit /\ [][CollectorNext]_vars

----------------------------------------------------------------------------
(* readProjectFile *)

SLASH == "/"

\* The segments of a path text, the empty ones included.
RECURSIVE split(_)
split(p) ==
    LET at == {i \in 1..Len(p) : p[i] = SLASH}
    IN IF at = {} THEN <<p>>
       ELSE <<SubSeq(p, 1, Min(at) - 1)>> \o split(SubSeq(p, Min(at) + 1, Len(p)))

\* path.resolve on the segments: "" and "." are dropped, ".." drops the
\* segment before it and is dropped itself at the top.
RECURSIVE normalizeSegments(_, _)
normalizeSegments(segs, acc) ==
    IF segs = << >> THEN acc
    ELSE LET seg == Head(segs)
         IN normalizeSegments(Tail(segs),
                IF seg = << >> \/ seg = <<".">> THEN acc
                ELSE IF seg = <<".", ".">>
                     THEN (IF acc = << >> THEN acc ELSE SubSeq(acc, 1, Len(acc) - 1))
                ELSE Append(acc, seg))

RECURSIVE joinSegments(_)
joinSegments(segs) ==
    IF segs = << >> THEN << >>
    ELSE <<SLASH>> \o Head(segs) \o joinSegments(Tail(segs))

\* path.resolve(root, relativePath) for an absolute root (POSIX): an absolute
\* second argument replaces the root.
pathResolve(rt, rel) ==
    LET full == IF startsWith(rel, <<SLASH>>) THEN rel ELSE rt \o <<SLASH>> \o rel
        segs == normalizeSegments(split(full), << >>)
    IN IF segs = << >> THEN <<SLASH>> ELSE joinSegments(segs)

ESCAPES == <<"P","a","t","h"," ","e","s","c","a","p","e","s"," ","p","r","o","j","e","c","t"," ","r","o","o","t">>
NOT_REGULAR == <<"N","o","t"," ","a"," ","r","e","g","u","l","a","r"," ","f","i","l","e">>

\* The project roots: loadEvaluationContext passes path.resolve(options.cwd)
\* or process.cwd(), an absolute path without a final slash.
Roots == {<<"/","p","r","o","j">>, <<"/","s","r","v","/","a","p","p">>}

\* Configuration candidates, paths given with --include-config and paths
\* extracted from log messages by ISSUE_PATH_REGEX.
RelativePaths ==
    {<<"p","a","c","k","a","g","e",".","j","s","o","n">>, <<"s","r","c","/","a","p","p","/","p","a","g","e",".","t","s","x">>, <<".","/","s","r","c","/",".",".","/","n","e","x","t",".","c","o","n","f","i","g",".","j","s">>, <<>>,
     <<".",".">>, <<".",".","/","o","t","h","e","r","/","s","e","c","r","e","t",".","t","x","t">>, <<"/","e","t","c","/","p","a","s","s","w","d">>, <<".",".","/","p","r","o","j","/","p","a","c","k","a","g","e",".","j","s","o","n">>,
     <<".",".","/","p","r","o","j","-","e","v","i","l","/","s","e","c","r","e","t",".","t","x","t">>, <<"s","r","c","/",".",".","/",".",".","/","p","r","o","j","-","e","v","i","l","/","s","e","c","r","e","t",".","t","x","t">>,
     <<".",".","/","a","p","p","2","/",".","e","n","v">>}

\* What fs.stat and fs.readFile find at the resolved path.
DiskInputs == {"missing", "directory", "file", "large", "unreadable"}

ResolvedOf == [rt \in Roots |-> [rel \in RelativePaths |-> pathResolve(rt, rel)]]

\* const resolved = path.resolve(root, relativePath)
resolved == ResolvedOf[root][relativePath]

\* One readProjectFile call is about to be made.
FileInit ==
    /\ ParseIdle
    /\ ReplayIdle
    /\ EvaluateIdle
    /\ AnalyzeIdle
    /\ CollectorIdle
    /\ root \in Roots
    /\ relativePath \in RelativePaths
    /\ disk \in DiskInputs
    /\ fpc = "resolve"
    /\ reads = {}
    /\ snapshot = NoResult

\* The guard of readProjectFile: !resolved.startsWith(root)
escapesRoot == ~startsWith(resolved, root)

EscapesRoot ==
    /\ fpc = "resolve"
    /\ escapesRoot
    /\ snapshot' = [path |-> relativePath, exists |-> FALSE, reason |-> ESCAPES]
    /\ fpc' = "done"
    /\ UNCHANGED <<root, relativePath, disk, reads>>
    /\ UNCHANGED <<parseVars, replayVars, evaluateVars, analyzeVars, collectorVars>>

\* fs.stat rejects: the catch block returns the message of the error.
StatThrows ==
    /\ fpc = "resolve"
    /\ ~escapesRoot
    /\ disk = "missing"
    /\ snapshot' = [path |-> relativePath, exists |-> FALSE, reason |-> "error.message"]
    /\ fpc' = "done"
    /\ UNCHANGED <<root, relativePath, disk, reads>>
    /\ UNCHANGED <<parseVars, replayVars, evaluateVars, analyzeVars, collectorVars>>

NotRegularFile ==
    /\ fpc = "resolve"
    /\ ~escapesRoot
    /\ disk = "directory"
    /\ snapshot' = [path |-> relativePath, exists |-> FALSE, reason |-> NOT_REGULAR]
    /\ fpc' = "done"
    /\ UNCHANGED <<root, relativePath, disk, reads>>
    /\ UNCHANGED <<parseVars, replayVars, evaluateVars, analyzeVars, collectorVars>>

\* fs.readFile is called and rejects: the catch block.
ReadThrows ==
    /\ fpc = "resolve"
    /\ ~escapesRoot
    /\ disk = "unreadable"
    /\ reads' = reads \cup {resolved}
    /\ snapshot' = [path |-> relativePath, exists |-> FALSE, reason |-> "error.message"]
    /\ fpc' = "done"
    /\ UNCHANGED <<root, relativePath, disk>>
    /\ UNCHANGED <<parseVars, replayVars, evaluateVars, analyzeVars, collectorVars>>

\* stat.size > MAX_FILE_SIZE_BYTES: the file is read and cut.
ReadTruncated ==
    /\ fpc = "resolve"
    /\ ~escapesRoot
    /\ disk = "large"
    /\ reads' = reads \cup {resolved}
    /\ snapshot' = [path |-> relativePath, exists |-> TRUE, content |-> "truncated",
                    reason |-> "File truncated"]
    /\ fpc' = "done"
    /\ UNCHANGED <<root, relativePath, disk>>
    /\ UNCHANGED <<parseVars, replayVars, evaluateVars, analyzeVars, collectorVars>>

ReadWhole ==
    /\ fpc = "resolve"
    /\ ~escapesRoot
    /\ disk = "file"
    /\ reads' = reads \cup {resolved}
    /\ snapshot' = [path |-> relativePath, exists |-> TRUE, content |-> "content"]
    /\ fpc' = "done"
    /\ UNCHANGED <<root, relativePath, disk>>
    /\ UNCHANGED <<parseVars, replayVars, evaluateVars, analyzeVars, collectorVars>>

FileNext ==
    \/ EscapesRoot
    \/ StatThrows
    \/ NotRegularFile
    \/ ReadThrows
    \/ ReadTruncated
    \/ ReadWhole

FileSpec == FileInit /\ [][FileNext]_vars

----------------------------------------------------------------------------
(* Vocabulary of the properties, stated on the text of the messages *)

\* The loop is about to handle the entry at idx.
AtEntry == pc = "parse" /\ idx <= Len(logs)

Records == Len(buildEvents) + Len(errors) + Len(notes) + Len(warnings)

LastEvent(evs) == evs[Len(evs)]

IsWaitText == [m \in AllMessages |-> startsWith(TrimmedLine[m], WAIT_PREFIX)]
IsCompiledText == [m \in AllMessages |->
                     ~IsWaitText[m] /\ startsWith(TrimmedLine[m], EVENT_COMPILED)]
MentionsClientAndServer == [m \in AllMessages |-> includes(TrimmedLine[m], CLIENT_AND_SERVER)]

\* The rules of the classification whose own test the trimmed text passes,
\* by their number in the priority order.
RulesMatching(t) ==
    {r \in 1..7 :
        \/ r = 1 /\ startsWith(t, WAIT_PREFIX)
        \/ r = 2 /\ startsWith(t, EVENT_COMPILED)
        \/ r = 3 /\ startsWith(t, DUPLICATE_PAGE)
        \/ r = 4 /\ startsWith(t, NAMED_LAYOUT)
        \/ r = 5 /\ includes(t, PATCHED)
        \/ r = 6 /\ (startsWith(t, WARN_DASH) \/ startsWith(t, WARN_LEGACY))
        \/ r = 7 /\ includes(t, DEPRECATION)}
MatchingRules == [m \in AllMessages |-> RulesMatching(TrimmedLine[m])]
\* 0 when no rule matches.
WinningRule == [m \in AllMessages |->
                  IF MatchingRules[m] = {} THEN 0 ELSE Min(MatchingRules[m])]

\* The numbers written in a text: the maximal runs of digits and dots that
\* hold a digit.
NumberRuns(t) ==
    {r \in (1..Len(t)) \X (1..Len(t)) :
        /\ r[1] <= r[2]
        /\ \A k \in r[1]..r[2] : IsDigitOrDot(t[k])
        /\ \E k \in r[1]..r[2] : IsDigit(t[k])
        /\ (r[1] = 1 \/ ~IsDigitOrDot(t[r[1] - 1]))
        /\ (r[2] = Len(t) \/ ~IsDigitOrDot(t[r[2] + 1]))}
\* The occurrences of "<number> unit": the numbers followed, after any
\* spaces, by the unit.
Occurrences(t, unit) ==
    {r \in NumberRuns(t) :
        \E k \in (r[2] + 1)..Len(t) :
            /\ \A x \in (r[2] + 1)..(k - 1) : IsSpace(t[x])
            /\ MatchAt(t, unit, k)}
FirstOccurrence(t, unit) ==
    LET r == CHOOSE a \in Occurrences(t, unit) :
                 \A b \in Occurrences(t, unit) : a[1] <= b[1]
    IN SubSeq(t, r[1], r[2])

\* The duration a compiled-event text states: the first seconds form in
\* milliseconds, else the first milliseconds form, else none.
StatedDuration(t) ==
    IF Occurrences(t, UNIT_S) # {}
    THEN Times(parseFloat(FirstOccurrence(t, UNIT_S)), 1000)
    ELSE IF Occurrences(t, UNIT_MS) # {}
    THEN parseFloat(FirstOccurrence(t, UNIT_MS))
    ELSE Null
StatedDurationOf == [m \in AllMessages |-> StatedDuration(TrimmedLine[m])]

IsNumber(x) == x.t = "number"

\* The durations of a list of events that are numbers.
Durations(evs) == {evs[j].durationMs.v : j \in {i \in 1..Len(evs) : IsNumber(evs[i].durationMs)}}
\* Every event carries a duration that is null or a number.
WellFormedDurations(evs) ==
    \A j \in 1..Len(evs) : evs[j].durationMs = Null \/ IsNumber(evs[j].durationMs)

----------------------------------------------------------------------------
(* Properties *)

\* C1: a compiled-event line handled while a wait context is open emits an
\* event whose target is the pending wait target and whose type is
\* "incremental", whatever the line says; with no wait context open the type
\* is "initial" when the line mentions "client and server" and "incremental"
\* otherwise.
C1_WaitContextDecidesEvent ==
    [][(AtEntry /\ IsCompiledText[logs[idx]]) =>
          /\ Len(buildEvents') = Len(buildEvents) + 1
          /\ IF lastWaitContext # Null
             THEN /\ LastEvent(buildEvents').target = lastWaitContext.v
                  /\ LastEvent(buildEvents').type = "incremental"
             ELSE LastEvent(buildEvents').type =
                      IF MentionsClientAndServer[logs[idx]]
                      THEN "initial" ELSE "incremental"]_vars

\* Scenario A: wait /home, then a "client and server" compile.
C1_Witness ==
    /\ pc = "done"
    /\ logs = <<MsgWait, MsgSeconds>>
    /\ MentionsClientAndServer[MsgSeconds]
    /\ Len(result.metrics.buildEvents) = 1
    /\ result.metrics.buildEvents[1].target = <<"/","h","o","m","e">>
    /\ result.metrics.buildEvents[1].type = "incremental"

\* C2: no second or later compiled event of a parse call is typed "initial".
C2_OnlyFirstCompileIsInitial ==
    \A j \in 2..Len(buildEvents) : buildEvents[j].type # "initial"

\* C3: the pending wait target is cleared by each compiled-event line, so the
\* event of a compiled-event line that directly follows another one never
\* takes a wait target: it is typed from its own text.
C3_WaitTargetUsedOnce ==
    [][(AtEntry /\ IsCompiledText[logs[idx]]) =>
          /\ lastWaitContext' = Null
          /\ (idx > 1 /\ IsCompiledText[logs[idx - 1]]) =>
                /\ lastWaitContext = Null
                /\ LastEvent(buildEvents') = BuildEventOf[logs[idx]][Null]]_vars

\* wait, compiled, compiled: the second event is named by its own line.
C3_Witness ==
    /\ pc = "done"
    /\ HandlesFramework[framework]
    /\ logs = <<MsgWait, MsgZero, MsgNoDuration>>
    /\ Len(result.metrics.buildEvents) = 2
    /\ result.metrics.buildEvents[1].target = <<"/","h","o","m","e">>
    /\ result.metrics.buildEvents[2].target = <<"/","c">>

\* C4: the Next.js parser runs exactly for the framework names containing
\* "next" in any letter case; for every other name the result has empty
\* lists, an empty summary and the input as rawLogs; and no call stops before
\* returning.
NextNames == {<<"N","e","x","t",".","j","s">>}
C4_ParserSelection ==
    /\ pc = "parse" => framework \in NextNames
    /\ pc = "done" =>
          /\ result.rawLogs = logs
          /\ IF framework \in NextNames
             THEN /\ idx = Len(logs) + 1
                  /\ result.metrics.buildEvents = buildEvents
                  /\ result.metrics.errors = errors
                  /\ result.metrics.warnings = warnings
                  /\ result.metrics.notes = notes
             ELSE /\ result.metrics.buildEvents = << >>
                  /\ result.metrics.warnings = << >>
                  /\ result.metrics.errors = << >>
                  /\ result.metrics.notes = << >>
                  /\ DOMAIN result.metrics.summary = {}
    /\ pc # "done" => ENABLED Next

C4_Witness ==
    /\ pc = "done"
    /\ framework = <<"N","u","x","t">>
    /\ logs = <<MsgSeconds, MsgWarn, MsgDuplicate>>
    /\ result.metrics.buildEvents = << >>

\* C5: the first matching rule, in the order wait, compiled event, duplicate
\* route, named layout, patched, warn marker, DeprecationWarning, decides what
\* a line adds: at most one record in all, and none for a wait line.
C5_FirstMatchingRuleWins ==
    [][AtEntry =>
          LET w == WinningRule[logs[idx]]
              grew(old, new) == Len(new) = Len(old) + 1
          IN /\ Records' <= Records + 1
             /\ w \in {0, 1} => Records' = Records
             /\ w = 2 => grew(buildEvents, buildEvents')
             /\ w \in {3, 4} => grew(errors, errors')
             /\ w = 5 => grew(notes, notes')
             /\ w \in {6, 7} => grew(warnings, warnings')]_vars

\* A line with a warn marker and "DeprecationWarning" gives one warning.
C5_Witness ==
    /\ pc = "done"
    /\ logs = <<MsgWarn, MsgPatched>>
    /\ MatchingRules[MsgWarn] = {6, 7}
    /\ MatchingRules[MsgPatched] = {5, 6, 7}
    /\ Len(warnings) = 1
    /\ Len(notes) = 1

\* C6: the durationMs of a compiled event is 1000 times the number of the
\* first "<number>s" occurrence of its line when there is one, otherwise the
\* number of the first "<number>ms" occurrence, otherwise null.
C6_DurationFromFirstUnitForm ==
    [][(AtEntry /\ IsCompiledText[logs[idx]]) =>
          LastEvent(buildEvents').durationMs = StatedDurationOf[logs[idx]]]_vars

\* C7: the durationMs of every emitted event is null or a finite number that
\* is not negative.
C7_DurationNullOrFinite ==
    \A j \in 1..Len(buildEvents) :
        \/ buildEvents[j].durationMs = Null
        \/ IsNumber(buildEvents[j].durationMs) /\ buildEvents[j].durationMs.v >= 0

\* C8: the summary is the empty mapping exactly when there is no build event;
\* otherwise it carries eventCount, the number of events, with longestBuildMs
\* and longestTarget.
C8_SummaryEmptyIffNoEvents ==
    pc = "done" =>
        LET m == result.metrics
        IN /\ (DOMAIN m.summary = {}) <=> (m.buildEvents = << >>)
           /\ m.buildEvents # << >> =>
                 /\ DOMAIN m.summary = {"eventCount", "longestBuildMs", "longestTarget"}
                 /\ m.summary.eventCount = Len(m.buildEvents)

C8_Witness ==
    /\ pc = "done"
    /\ Len(result.metrics.buildEvents) = 2
    /\ result.metrics.summary.eventCount = 2

\* C9: over events whose durations are null or numbers, longestBuildMs is the
\* greatest duration among the events that have one, and is absent (null)
\* when none has.
C9_LongestIsMaximum ==
    (pc = "done" /\ buildEvents # << >> /\ WellFormedDurations(buildEvents)) =>
        result.metrics.summary.longestBuildMs =
            IF Durations(buildEvents) = {} THEN Null
            ELSE Num(Max(Durations(buildEvents)))

\* C10: over events whose durations are null or numbers, longestTarget is the
\* target of the first event whose duration is the maximum, and the target of
\* the first event when every duration is null.
C10_FirstLongestNamesTarget ==
    (pc = "done" /\ buildEvents # << >> /\ WellFormedDurations(buildEvents)) =>
        LET holders == {j \in 1..Len(buildEvents) :
                           /\ IsNumber(buildEvents[j].durationMs)
                           /\ buildEvents[j].durationMs.v = Max(Durations(buildEvents))}
            winner == IF Durations(buildEvents) = {} THEN 1 ELSE Min(holders)
        IN result.metrics.summary.longestTarget = Str(buildEvents[winner].target)

----------------------------------------------------------------------------
(* The evaluator: vocabulary of the properties *)

\* evaluate has computed its score, level, recommendations and issues.
Scored == epc \in {"llm", "return", "report", "done"}

\* evaluate has returned.
Returned == evaluation # NoResult

\* The Metrics evaluate was called on.
metricsIn == evaluationContext.metrics

\* longestBuildMs of the summary, Null when the summary has none.
longestBuildMsIn ==
    IF "longestBuildMs" \in DOMAIN metricsIn.summary
    THEN metricsIn.summary.longestBuildMs ELSE Null

\* longestBuildMs > slowBuildMs
Slow == IsNumber(longestBuildMsIn) /\ longestBuildMsIn.v > thresholds.slowBuildMs

Clamp(x, lo, hi) == IF x < lo THEN lo ELSE IF x > hi THEN hi ELSE x

\* min(30, ceil(excess / 10000) * 5) for an excess > 0 in thousandths of a
\* millisecond: the ceiling is the least n with n * 10000 ms >= excess.
StatedSlowPenalty ==
    IF Slow
    THEN LET excess == longestBuildMsIn.v - thresholds.slowBuildMs
             n == CHOOSE n \in 1..(excess \div Ms(10000) + 1) :
                      /\ n * Ms(10000) >= excess
                      /\ (n - 1) * Ms(10000) < excess
         IN IF 5 * n < 30 THEN 5 * n ELSE 30
    ELSE 0

NonNegativeThresholds ==
    /\ thresholds.warningPenalty >= 0
    /\ thresholds.errorPenalty >= 0
    /\ thresholds.slowBuildMs >= 0

\* The Metrics with one more error, with one more warning.
WithError(m, issue) == [m EXCEPT !.errors = Append(@, issue)]
WithWarning(m, issue) == [m EXCEPT !.warnings = Append(@, issue)]

----------------------------------------------------------------------------
(* The score and the level *)

\* C11: with thresholds that are all >= 0, the score evaluate computes and
\* returns lies in [0, 100].
C11_ScoreInRange ==
    /\ (Scored /\ NonNegativeThresholds) => (score >= 0 /\ score <= 100)
    /\ Returned => (evaluation.score >= 0 /\ evaluation.score <= 100)

\* evaluate has returned the score 0 for issues whose penalties exceed 100.
C11_Witness ==
    /\ Returned
    /\ NonNegativeThresholds
    /\ Len(metricsIn.errors) * thresholds.errorPenalty > 100
    /\ evaluation.score = 0

\* C12: with the thresholds and longestBuildMs of the call, the same Metrics
\* with one more error, or with one more warning, never scores higher.
C12_ScoreMonotone ==
    (Scored /\ NonNegativeThresholds) =>
        /\ \A issue \in ErrorInputs :
              computeScore(WithError(metricsIn, issue), thresholds) <= score
        /\ \A issue \in WarningInputs :
              computeScore(WithWarning(metricsIn, issue), thresholds) <= score

\* A call whose score one more warning lowers and one more error lowers
\* further.
C12_Witness ==
    /\ Scored
    /\ NonNegativeThresholds
    /\ \E w \in WarningInputs, e \in ErrorInputs :
          /\ computeScore(WithWarning(metricsIn, w), thresholds) < score
          /\ computeScore(WithError(metricsIn, e), thresholds)
                < computeScore(WithWarning(metricsIn, w), thresholds)

\* C13: the score is clamp(100 - errors * errorPenalty - warnings *
\* warningPenalty - slowPenalty, 0, 100), where slowPenalty is
\* min(30, ceil((longestBuildMs - slowBuildMs) / 10000) * 5) when
\* longestBuildMs > slowBuildMs and 0 otherwise; the slow-build penalty is a
\* multiple of 5 from 5 to 30; 45000 ms against 30000 ms with no issues
\* scores 90.
C13_ScoreFormula ==
    Scored =>
        /\ score = Clamp(100 - Len(metricsIn.errors) * thresholds.errorPenalty
                             - Len(metricsIn.warnings) * thresholds.warningPenalty
                             - StatedSlowPenalty, 0, 100)
        /\ Slow => StatedSlowPenalty \in {5, 10, 15, 20, 25, 30}
        /\ ( /\ longestBuildMsIn = Num(Ms(45000))
             /\ thresholds.slowBuildMs = Ms(30000)
             /\ metricsIn.errors = << >>
             /\ metricsIn.warnings = << >> ) => score = 90

\* evaluate has returned 90 for a longest build of 45000 ms against a limit
\* of 30000 ms with no issues.
C13_Witness ==
    /\ Returned
    /\ longestBuildMsIn = Num(Ms(45000))
    /\ thresholds.slowBuildMs = Ms(30000)
    /\ metricsIn.errors = << >>
    /\ metricsIn.warnings = << >>
    /\ evaluation.score = 90

\* C14: the level is Excellent for a score of 85 or more, Good for 70..84,
\* Average for 50..69 and Poor below 50.
C14_LevelBoundaries ==
    Scored =>
        /\ score >= 85 => level = "Excellent"
        /\ (score >= 70 /\ score <= 84) => level = "Good"
        /\ (score >= 50 /\ score <= 69) => level = "Average"
        /\ score < 50 => level = "Poor"

\* evaluate has returned the level Good for the score 70.
C14_Witness ==
    /\ Returned
    /\ evaluation.score = 70
    /\ evaluation.level = "Good"

----------------------------------------------------------------------------
(* The recommendations and the issues *)

\* The snapshots of the configuration files that were not found, in order.
MissingConfigs == SelectSeq(evaluationContext.configFiles, LAMBDA file : ~file.exists)

\* C15: the recommendations are one critical entry per error in error order,
\* then one warning entry per warning in warning order, then the slow-build
\* warning if the build is slow, then one info entry naming every missing
\* configuration file if there is one; nothing is merged, so the length is
\* errors + warnings + (1 if slow) + (1 if a file is missing).
C15_RecommendationOrder ==
    Scored =>
        LET e == Len(metricsIn.errors)
            w == Len(metricsIn.warnings)
            s == IF Slow THEN 1 ELSE 0
            c == IF MissingConfigs # << >> THEN 1 ELSE 0
            r == recommendations
        IN /\ Len(r) = e + w + s + c
           /\ \A k \in 1..e : /\ r[k].level = "critical"
                              /\ r[k].message = metricsIn.errors[k].message
           /\ \A k \in 1..w : /\ r[e + k].level = "warning"
                              /\ r[e + k].message = metricsIn.warnings[k].message
           /\ s = 1 => /\ r[e + w + 1].level = "warning"
                       /\ r[e + w + 1].details = [longestBuildMs |-> longestBuildMsIn]
           /\ c = 1 => /\ r[e + w + s + 1].level = "info"
                       /\ \A k \in 1..Len(MissingConfigs) :
                             includes(r[e + w + s + 1].message, MissingConfigs[k].path)

\* Two equal errors, a warning, a slow build and two missing files have
\* given five recommendations.
C15_Witness ==
    /\ Scored
    /\ Len(metricsIn.errors) = 2
    /\ metricsIn.errors[1] = metricsIn.errors[2]
    /\ Len(metricsIn.warnings) = 1
    /\ Slow
    /\ Len(MissingConfigs) = 2
    /\ Len(recommendations) = 5

\* C16: the issues of the result are the errors of the Metrics followed by
\* its warnings, each list in its order and nothing else.
C16_IssuesAreErrorsThenWarnings ==
    Returned =>
        LET e == Len(metricsIn.errors)
            w == Len(metricsIn.warnings)
        IN /\ Len(evaluation.issues) = e + w
           /\ \A k \in 1..e : evaluation.issues[k] = metricsIn.errors[k]
           /\ \A k \in 1..w : evaluation.issues[e + k] = metricsIn.warnings[k]

\* evaluate has returned three issues for a warning and two different
\* errors.
C16_Witness ==
    /\ Returned
    /\ Len(metricsIn.errors) = 2
    /\ metricsIn.errors[1] # metricsIn.errors[2]
    /\ Len(metricsIn.warnings) = 1
    /\ Len(evaluation.issues) = 3

----------------------------------------------------------------------------
(* The LLM call and the API key *)

\* C17: when the LLM call fails (the request is rejected, the status is not
\* a success, the response is empty), generateLlmInsights gives null and
\* evaluate goes on to return; the result has no llm value and carries the
\* score, level, recommendations and issues that the context and the
\* thresholds alone determine.
C17_LlmFailureIsAbsorbed ==
    llmCall \in LlmFailures =>
        /\ epc \in {"return", "report", "done"}
        /\ llmSummary = Null
        /\ Returned =>
              /\ evaluation.llm = Undefined
              /\ evaluation.score = computeScore(metricsIn, thresholds)
              /\ evaluation.level = deriveLevel(evaluation.score)
              /\ evaluation.recommendations
                    = buildRecommendations(evaluationContext, thresholds)
              /\ evaluation.issues = collectIssues(metricsIn)

\* evaluate has returned after a failed LLM call, on Metrics with issues.
C17_Witness ==
    /\ Returned
    /\ llmCall \in LlmFailures
    /\ evaluation.issues # << >>
    /\ evaluation.llm = Undefined

\* C18: an analyze run without an API key (neither --llm-api-key nor
\* OPENAI_API_KEY) does not stop before evaluate.
C18_MissingKeyDoesNotBlock ==
    (caller = "runAnalyze" /\ FalsyString(cliApiKey)) => epc # "threw"

----------------------------------------------------------------------------
(* Replayed calls *)

\* C19: transformLogs returns the sequence it was given as rawLogs, and
\* transforming the rawLogs of a result again, with the same framework,
\* returns a result equal to the first one.
C19_RawLogsRoundTrip ==
    pc = "done" =>
        /\ result.rawLogs = logs
        /\ previous # NoResult => result = previous

\* A second call on the rawLogs of a first one has returned, and the lines
\* made it record build events, warnings and errors.
C19_Witness ==
    /\ pc = "done"
    /\ previous # NoResult
    /\ HandlesFramework[framework]
    /\ result.metrics.buildEvents # << >>
    /\ result.metrics.errors # << >>
    /\ result.metrics.warnings # << >>

----------------------------------------------------------------------------
(* Detail blocks, order of the records and the pending wait target *)

IsLayoutText == [m \in AllMessages |-> startsWith(TrimmedLine[m], NAMED_LAYOUT)]
IsIndented == [m \in AllMessages |-> startsWith(m, INDENT)]

\* How many lines right after position i begin with eight spaces, one after
\* the other.
IndentedRun(i) ==
    CHOOSE n \in 0..(Len(logs) - i) :
        /\ \A j \in 1..n : IsIndented[logs[i + j]]
        /\ (i + n = Len(logs) \/ ~IsIndented[logs[i + n + 1]])

\* C21: for a line at position i that starts with the named-layout marker,
\* the error it emits has details.routes equal to the trimmed texts, in
\* order, of the maximal run of lines i+1, i+2, ... whose raw text starts
\* with eight spaces; routes is empty when line i+1 is not indented or does
\* not exist.
C21_RoutesAreIndentedRun ==
    [][(AtEntry /\ IsLayoutText[logs[idx]]) =>
          /\ Len(errors') = Len(errors) + 1
          /\ LET issue == errors'[Len(errors')]
                 routes == issue.details.routes
             IN /\ issue.level = "error"
                /\ Len(routes) = IndentedRun(idx)
                /\ \A j \in 1..Len(routes) : routes[j] = TrimmedLine[logs[idx + j]]
                /\ (idx = Len(logs) \/ ~IsIndented[logs[idx + 1]]) => routes = << >>]_vars

\* A named-layout error whose block holds a line and is ended by a line that
\* is not indented, and one whose block is empty.
C21_Witness ==
    /\ pc = "done"
    /\ Len(logs) = 3
    /\ IsLayoutText[logs[1]] /\ IsIndented[logs[2]] /\ IsLayoutText[logs[3]]
    /\ Len(errors) = 2
    /\ errors[1].details.routes = <<TrimmedLine[logs[2]]>>
    /\ errors[2].details.routes = << >>

\* The positions of the lines parse has handled whose first matching rule is
\* one of rules, and the k-th of them.
Handled(rules) ==
    {i \in 1..Len(logs) : i < idx /\ WinningRule[logs[i]] \in rules}
NthOf(S, k) == CHOOSE i \in S : Cardinality({j \in S : j <= i}) = k

\* The list holds one record per line of S, in the order of the lines.
IssuesFollow(list, S) ==
    /\ Len(list) = Cardinality(S)
    /\ \A k \in 1..Len(list) : list[k].message = TrimmedLine[logs[NthOf(S, k)]]

\* C22: the parser never reorders or deduplicates: buildEvents, errors,
\* warnings and notes each hold one record per input line that produced one,
\* in the order of those lines, so k identical matching lines give k records.
C22_RecordsInLineOrder ==
    pc \in {"parse", "done"} =>
        /\ IssuesFollow(errors, Handled({3, 4}))
        /\ IssuesFollow(warnings, Handled({6, 7}))
        /\ IssuesFollow(notes, Handled({5}))
        /\ Len(buildEvents) = Cardinality(Handled({2}))
        /\ \A k \in 1..Len(buildEvents) :
              LET m == logs[NthOf(Handled({2}), k)]
              IN /\ buildEvents[k].durationMs = BuildEventOf[m][Null].durationMs
                 /\ buildEvents[k].modules = BuildEventOf[m][Null].modules

\* Two identical warning lines around another warning line: three warnings,
\* in the order of the lines.
C22_Witness ==
    /\ pc = "done"
    /\ Len(logs) = 3
    /\ logs[1] = logs[3] /\ logs[1] # logs[2]
    /\ Len(warnings) = 3
    /\ warnings[1] = warnings[3] /\ warnings[1] # warnings[2]

IsWarnText == [m \in AllMessages |->
                 \/ startsWith(TrimmedLine[m], WARN_DASH)
                 \/ startsWith(TrimmedLine[m], WARN_LEGACY)]

\* How many of the lines up to position p have their first matching rule in
\* rules: the place, in its list, of the record of line p.
PlaceOf(p, rules) == Cardinality({i \in 1..p : WinningRule[logs[i]] \in rules})

\* C23: the lines of a named-layout detail block are not skipped by the main
\* loop: an indented line of the block whose trimmed text starts with a warn
\* marker is in details.routes of the error and also adds its warning.
C23_BlockLinesStillClassified ==
    pc \in {"parse", "done"} =>
        \A s \in 1..Len(logs) :
            IsLayoutText[logs[s]] =>
                \A j \in 1..IndentedRun(s) :
                    (s + j < idx /\ IsWarnText[logs[s + j]]) =>
                        LET text == TrimmedLine[logs[s + j]]
                            e == PlaceOf(s, {3, 4})
                            w == PlaceOf(s + j, {6, 7})
                        IN /\ e <= Len(errors)
                           /\ errors[e].details.routes[j] = text
                           /\ w <= Len(warnings)
                           /\ warnings[w] = [level |-> "warning", message |-> text]

\* A named-layout line followed by an indented warn line: the line is a
\* route of the error and a warning.
C23_Witness ==
    /\ pc = "done"
    /\ logs = <<MsgLayout, MsgIndented>>
    /\ Len(errors) = 1
    /\ errors[1].details.routes = <<TrimmedLine[MsgIndented]>>
    /\ warnings = <<[level |-> "warning", message |-> TrimmedLine[MsgIndented]]>>

----------------------------------------------------------------------------
(* Targets, stated on the text of the lines *)

OrBuildText(x) == IF Len(x) = 0 THEN BUILD ELSE x

EndsWith(x, p) == Len(x) >= Len(p) /\ SubSeq(x, Len(x) - Len(p) + 1, Len(x)) = p

\* The text of a wait line after its marker, without a final ellipsis.
WaitRest(t) ==
    LET a == trim(SubSeq(t, Len(WAIT_PREFIX) + 1, Len(t)))
    IN IF EndsWith(a, ELLIPSIS) THEN trim(SubSeq(a, 1, Len(a) - Len(ELLIPSIS))) ELSE a

\* Where "compiling", a space and some text are found in r.
CompilingAt(r) ==
    {p \in 1..Len(r) :
        /\ MatchAtCI(r, COMPILING, p)
        /\ p + Len(COMPILING) <= Len(r)
        /\ IsSpace(r[p + Len(COMPILING)])
        /\ trim(SubSeq(r, p + Len(COMPILING), Len(r))) # << >>}

\* x without a parenthesized suffix.
WithoutParenSuffix(x) ==
    LET opens == {q \in 1..Len(x) : x[q] = "("}
    IN IF EndsWith(x, <<")">>) /\ opens # {}
       THEN trim(SubSeq(x, 1, Min(opens) - 1))
       ELSE x

StatedWaitTarget(t) ==
    LET r == WaitRest(t)
        at == CompilingAt(r)
    IN IF at # {}
       THEN OrBuildText(WithoutParenSuffix(
                trim(SubSeq(r, Min(at) + Len(COMPILING), Len(r)))))
       ELSE OrBuildText(r)

\* x without its first "client and server".
WithoutClientAndServer(x) ==
    LET at == {p \in 1..Len(x) : MatchAtCI(x, CLIENT_AND_SERVER, p)}
    IN IF at = {} THEN x
       ELSE trim(SubSeq(x, 1, Min(at) - 1)
                 \o SubSeq(x, Min(at) + Len(CLIENT_AND_SERVER), Len(x)))

\* The text between "compiled" and "successfully", "build" when there is
\* none.
StatedEventTarget(t) ==
    LET cs == {c \in 1..Len(t) : MatchAtCI(t, COMPILED, c)}
        ss == {s \in 1..Len(t) : MatchAtCI(t, SUCCESSFULLY, s) /\ cs # {}
                                 /\ s > Min(cs) + Len(COMPILED)}
    IN IF ss = {} THEN BUILD
       ELSE OrBuildText(WithoutClientAndServer(
                trim(SubSeq(t, Min(cs) + Len(COMPILED), Max(ss) - 1))))

StatedWaitTargetOf == [m \in AllMessages |-> StatedWaitTarget(TrimmedLine[m])]
StatedEventTargetOf == [m \in AllMessages |-> StatedEventTarget(TrimmedLine[m])]

OpenWaits(i) ==
    {p \in 1..(i - 1) :
        /\ IsWaitText[logs[p]]
        /\ \A q \in (p + 1)..(i - 1) : ~IsCompiledText[logs[q]]}

\* C26: the pending wait target changes only on wait lines (set, a later
\* wait line overwriting an earlier one) and on compiled-event lines
\* (cleared); blank, error, note, warning and unmatched lines leave it as it
\* is, so a wait line names the target of the next compiled event however
\* many such lines come between them.
C26_WaitTargetFrame ==
    [][/\ ~AtEntry => lastWaitContext' = lastWaitContext
       /\ AtEntry =>
             /\ IsWaitText[logs[idx]] =>
                   lastWaitContext' = Str(StatedWaitTargetOf[logs[idx]])
             /\ IsCompiledText[logs[idx]] =>
                   /\ lastWaitContext' = Null
                   /\ OpenWaits(idx) # {} =>
                         LastEvent(buildEvents').target
                             = StatedWaitTargetOf[logs[Max(OpenWaits(idx))]]
             /\ (~IsWaitText[logs[idx]] /\ ~IsCompiledText[logs[idx]]) =>
                   lastWaitContext' = lastWaitContext]_vars

\* A wait line, then a line that is neither a wait line nor a compiled line,
\* then the event: it carries the target of the wait line.
C26_Witness ==
    /\ pc = "done"
    /\ Len(logs) = 3
    /\ IsWaitText[logs[1]]
    /\ WinningRule[logs[2]] \in {0, 3, 4, 5, 6, 7}
    /\ IsCompiledText[logs[3]]
    /\ Len(buildEvents) = 1
    /\ buildEvents[1].target = StatedWaitTargetOf[logs[1]]
    /\ buildEvents[1].target # StatedEventTargetOf[logs[3]]

----------------------------------------------------------------------------
(* The slow-build penalty and its recommendation *)

\* The recommendations hold the slow-build entry.
SlowRecommended ==
    \E k \in 1..Len(recommendations) :
        /\ recommendations[k].level = "warning"
        /\ "longestBuildMs" \in DOMAIN recommendations[k].details

\* longestBuildMs is a number, not zero, and greater than slowBuildMs.
NonZeroAndGreater ==
    /\ IsNumber(longestBuildMsIn)
    /\ longestBuildMsIn.v # 0
    /\ longestBuildMsIn.v > thresholds.slowBuildMs

\* 100 minus the penalties of the errors and warnings.
IssuesOnly ==
    100 - Len(metricsIn.errors) * thresholds.errorPenalty
        - Len(metricsIn.warnings) * thresholds.warningPenalty

\* C27: the slow-build penalty is subtracted from the score exactly when
\* buildRecommendations emits the slow-build warning: both happen if and only
\* if longestBuildMs is non-zero and greater than slowBuildMs.
C27_SlowPenaltyIffRecommendation ==
    Scored =>
        /\ SlowRecommended <=> NonZeroAndGreater
        /\ score = Clamp(IssuesOnly - (IF SlowRecommended THEN StatedSlowPenalty ELSE 0),
                         0, 100)
        /\ IssuesOnly > 0 => (score < IssuesOnly <=> SlowRecommended)

\* A score that carries the slow-build penalty, with the recommendation.
C27_Witness ==
    /\ Scored
    /\ SlowRecommended
    /\ score > 0
    /\ score < IssuesOnly
    /\ Len(metricsIn.errors) > 0

----------------------------------------------------------------------------
(* The analyze run *)

\* The Metrics hold no event and no issue.
NoEventsNoIssues(m) ==
    /\ m.buildEvents = << >>
    /\ m.errors = << >>
    /\ m.warnings = << >>
    /\ m.notes = << >>

\* C25: when the dev command fails, the analyze run does not abort: it goes
\* on to loadEvaluationContext and evaluate, on the transform of the empty
\* log sequence, whose metrics have no events and no issues.
C25_DevFailureDoesNotAbort ==
    devRun = "failed" =>
        /\ epc # "threw"
        /\ evaluationContext # Null => NoEventsNoIssues(evaluationContext.metrics)

\* The part of C25 that does not depend on the API key: after a failed dev
\* command the context is loaded from the transform of no logs.
DevFailureKeepsEmptyTransform ==
    devRun = "failed" =>
        /\ result.rawLogs = << >>
        /\ evaluationContext # Null => NoEventsNoIssues(evaluationContext.metrics)

NameContainsNext == [f \in Frameworks |-> includes(toLowerCase(f), NEXT_KEYWORD)]

\* C28: for a framework name that does not contain "next", evaluate returns
\* score 100 and level Excellent with no issues, whatever the log lines
\* hold; the only recommendation it can carry is the info entry for missing
\* configuration files.
C28_OtherFrameworksScoreFull ==
    (Returned /\ ~NameContainsNext[framework]) =>
        /\ evaluation.score = 100
        /\ evaluation.level = "Excellent"
        /\ evaluation.issues = << >>
        /\ Len(evaluation.recommendations) <= 1
        /\ \A k \in 1..Len(evaluation.recommendations) :
              /\ evaluation.recommendations[k].level = "info"
              /\ \E j \in 1..Len(evaluationContext.configFiles) :
                    ~evaluationContext.configFiles[j].exists

\* evaluate has returned for a framework without parser whose dev logs hold
\* an error line and a warning line, with a configuration file missing.
C28_Witness ==
    /\ Returned
    /\ ~NameContainsNext[framework]
    /\ logs = <<MsgDuplicate, MsgWarn>>
    /\ Len(evaluation.recommendations) = 1
    /\ evaluation.score = 100

----------------------------------------------------------------------------
(* The collector *)

\* The entries of logs that came from stream s, in the order of logs.
FromStream(s) ==
    SelectSeq(collected, LAMBDA entry : entry.type = s /\ entry # interruptionEntry)

\* Every line a stream delivered is in logs once, the lines of each stream
\* in stream order, and onLog saw the entries in the order of logs.
CollectedInOrder ==
    /\ \A s \in Streams :
          /\ Len(FromStream(s)) <= written[s] - Len(pending[s])
          /\ readers[s] # "error" => Len(FromStream(s)) = written[s] - Len(pending[s])
          /\ \A k \in 1..Len(FromStream(s)) : FromStream(s)[k] = LineEntry(s, k)
    /\ onLog.given => onLog.calls = collected

\* C29 as stated: every line delivered by either stream is appended to logs
\* exactly once and passed to onLog in the order it is appended, the lines of
\* each stream keep their stream order under every interleaving, and the
\* result is returned only after the child has exited and both stream readers
\* have closed.
C29_ReturnsAfterReadersClosed ==
    /\ CollectedInOrder
    /\ cpc = "returned" => (child = "exited" /\ \A s \in Streams : readers[s] = "closed")

\* C29, amended: the same, the result being returned only after the child
\* has exited and each stream reader has closed or its stream has emitted
\* "error".
C29_ReturnsAfterStreamsSettled ==
    /\ CollectedInOrder
    /\ cpc = "returned" =>
          (child = "exited" /\ \A s \in Streams : readers[s] \in {"closed", "error"})

\* The result is returned with the lines of the two streams interleaved, a
\* stderr line between the two stdout lines, and onLog has seen all four.
C29_Witness ==
    /\ cpc = "returned"
    /\ \A s \in Streams : readers[s] = "closed"
    /\ Len(collected) = 4
    /\ collected[1].type = "stdout"
    /\ collected[2].type = "stderr"
    /\ collected[3].type = "stdout"
    /\ onLog.given
    /\ Len(onLog.calls) = 4

----------------------------------------------------------------------------
(* Project files *)

\* The names of the directories and of the file of a path.
Names(p) == SelectSeq(split(p), LAMBDA seg : seg # << >>)

\* The path lies in the directory dir (or is dir itself).
InsideDirectory(p, dir) ==
    /\ Len(Names(dir)) <= Len(Names(p))
    /\ SubSeq(Names(p), 1, Len(Names(dir))) = Names(dir)

IsInsideRoot == [rt \in Roots |-> [rel \in RelativePaths |->
                   InsideDirectory(ResolvedOf[rt][rel], rt)]]

\* C30: readProjectFile never reads a file outside the project root: when
\* the resolved path is not inside the root directory it returns exists =
\* false with reason "Path escapes project root" and reads nothing, also for
\* a path in a sibling directory whose name starts with the name of the root.
C30_NeverReadsOutsideRoot ==
    (fpc = "done" /\ ~IsInsideRoot[root][relativePath]) =>
        /\ snapshot.exists = FALSE
        /\ snapshot.reason = ESCAPES
        /\ reads = {}

\* The paths outside the root whose text does not begin with the text of the
\* root are refused.
OutsideRefusedUnlessSameBeginning ==
    (fpc = "done" /\ ~IsInsideRoot[root][relativePath] /\ ~startsWith(resolved, root)) =>
        /\ snapshot = [path |-> relativePath, exists |-> FALSE, reason |-> ESCAPES]
        /\ reads = {}
====
